---------------------------- MODULE Spec2Model ----------------------------
(***************************************************************************)
(* Model of the ubmsc BLE client (src/src/lib.rs, src/src/protocol.rs,     *)
(* src/src/utils.rs): the message framer, the record codec, the scratch    *)
(* buffer and the device session (Client) with its cached peripheral       *)
(* handle.  Bytes are integers 0..255, byte slices are sequences (offset k *)
(* of the source is index k+1 here), Option<T> is <<>> (None) or <<x>>     *)
(* (Some(x)).  Every await of the source is a step of a caller.            *)
(***************************************************************************)
EXTENDS Integers, Sequences, FiniteSets, TLC

(***************************************************************************)
(* Bounds of the model.                                                    *)
(***************************************************************************)
\* sub-messages one exchange may accept before the device has to end it
MaxMsgCount == 2

\* devices one Client::find may collect before its scan has to end
MaxFound == 2

\* the clients one scrape iteration visits
NumClients == 2

\* the pieces a buffer given to the framer is put together from
MaxPieces == 4

\* the calls of next() made after the iterator has answered None
MaxNones == 2
\* longest byte sequence S sealed and validated on its own
MaxData == 5
\* longest array of 2-byte slots decoded on its own
MaxSlots == 4

\* the callers that may use the one Client
Tasks == {1, 2}

(***************************************************************************)
(* protocol.rs: wire constants and fixed layouts.                          *)
(***************************************************************************)
HEARTBEAT == <<65, 84, 13, 10>>
REQUEST_HEADER == <<170, 85, 144, 235>>
RESPONSE_HEADER == <<85, 170, 235, 144>>

SizeOfRawResponse == 4
SizeOfRawRecord == 6
SizeOfRawDeviceInfo == 150
SizeOfRawCellData == 256
CommandDataLen == 14

CMD_DEVICE_INFO == 151
REC_DEVICE_INFO == 3
CMD_CELL_DATA == 150
REC_CELL_DATA == 2

Zeros(n) == [i \in 1..n |-> 0]

\* slice::starts_with
StartsWith(s, h) == Len(s) >= Len(h) /\ SubSeq(s, 1, Len(h)) = h

\* a comparison of the first three bytes only
RestStartsWith_short(raw, i, h) ==
    /\ Len(raw) - i >= Len(h)
    /\ \A k \in 1..(Len(h) - 1) : raw[i + k] = h[k]

\* raw.split_at(i).1.starts_with(h), read in place: the rest begins at
\* offset i, index i + 1
RestStartsWith(raw, i, h) ==
    /\ Len(raw) - i >= Len(h)
    /\ \A k \in 1..Len(h) : raw[i + k] = h[k]

\* a boundary test that does not know the heartbeat
IsHeaderAt_no_heartbeat(raw, i) ==
    \/ RestStartsWith(raw, i, REQUEST_HEADER)
    \/ RestStartsWith(raw, i, RESPONSE_HEADER)

\* the condition of the if in MessageIter::next, for the split at i
IsHeaderAt(raw, i) ==
    \/ RestStartsWith(raw, i, HEARTBEAT)
    \/ RestStartsWith(raw, i, REQUEST_HEADER)
    \/ RestStartsWith(raw, i, RESPONSE_HEADER)

\* the split point of a scan that starts at offset 0
SplitPoint_from_zero(raw) ==
    LET l == Len(raw)
        hits == {i \in 0..(l - 1) : IsHeaderAt(raw, i)}
    IN  IF hits = {} THEN l
        ELSE CHOOSE i \in hits : \A j \in hits : i <= j

\* the split point MessageIter::next chooses on a non-empty slice: the first
\* i in 1..l-1 whose rest starts with a header, else l
SplitPoint(raw) ==
    LET l == Len(raw)
        hits == {i \in 1..(l - 1) : IsHeaderAt(raw, i)}
    IN  IF hits = {} THEN l
        ELSE CHOOSE i \in hits : \A j \in hits : i <= j

\* slice::split_at
split_at(raw, i) == <<SubSeq(raw, 1, i), SubSeq(raw, i + 1, Len(raw))>>

\* MessageIter::next: <<>> is None, <<item, rest>> is Some(item) with the
\* iterator advanced to rest
MessageIterNext(raw) ==
    IF Len(raw) > 0 THEN split_at(raw, SplitPoint(raw)) ELSE <<>>

\* the sequence a `for message in MessageIter::from(raw)` loop visits: next()
\* until it answers None
RECURSIVE MessageIter(_)
Collect(n) == IF n = <<>> THEN <<>> ELSE <<n[1]>> \o MessageIter(n[2])
MessageIter(raw) == Collect(MessageIterNext(raw))

\* <&RawResponse>::try_from: Some(header) when 4 bytes are there
RawResponseTryFrom(raw) ==
    IF Len(raw) >= SizeOfRawResponse
    THEN <<SubSeq(raw, 1, SizeOfRawResponse)>>
    ELSE <<>>

\* RawResponse::message_type
message_type(header) ==
    IF header = REQUEST_HEADER THEN <<"Request">>
    ELSE IF header = RESPONSE_HEADER THEN <<"Response">>
    ELSE IF header = HEARTBEAT THEN <<"Heartbeat">>
    ELSE <<>>

\* <&RawRecord>::try_from: Some([response, record_type, record_number])
RawRecordTryFrom(raw) ==
    IF Len(raw) >= SizeOfRawRecord
    THEN <<[response |-> SubSeq(raw, 1, SizeOfRawResponse),
            record_type |-> raw[SizeOfRawResponse + 1],
            record_number |-> raw[SizeOfRawResponse + 2]]>>
    ELSE <<>>

\* From<u8> for RawRequest, seen through AsRef<[u8]>: 19 bytes
\* a request of header and command only, without the reserved bytes
RawRequest_unpadded(command_code) ==
    REQUEST_HEADER \o <<command_code>>

RawRequest(command_code) ==
    REQUEST_HEADER \o <<command_code>> \o Zeros(CommandDataLen)

(***************************************************************************)
(* utils.rs                                                                *)
(***************************************************************************)
\* u8::wrapping_add
wrapping_add(acc, val) == (acc + val) % 256

\* the fold of wrapping_add over data[lo..hi] started from 0; the range is
\* halved instead of walked byte by byte to keep the evaluation shallow
\* (wrapping_add is associative and commutative, so the value is that of
\* the left fold of the source)
RECURSIVE Fold(_, _, _)
Fold(data, lo, hi) ==
    IF lo > hi THEN 0
    ELSE IF lo = hi THEN wrapping_add(0, data[lo])
    ELSE LET mid == (lo + hi) \div 2
         IN  wrapping_add(Fold(data, lo, mid), Fold(data, mid + 1, hi))

\* checksum(init, data): wrapping u8 sum, init an Option<u8>
checksum(init, data) ==
    wrapping_add(IF init = <<>> THEN 0 ELSE init[1], Fold(data, 1, Len(data)))

\* i16::from_le_bytes(*raw): the value in units of mul (the product with
\* mul is a strictly increasing map of this integer to f32)
i16le_to_value(raw) ==
    LET u == raw[1] + 256 * raw[2]
    IN  IF u >= 32768 THEN u - 65536 ELSE u

\* the decoding as it would be without the filter
RECURSIVE i16les_to_values_unfiltered(_)
i16les_to_values_unfiltered(raw) ==
    IF raw = <<>> THEN <<>>
    ELSE <<i16le_to_value(Head(raw))>> \o i16les_to_values_unfiltered(Tail(raw))

\* raw.iter().filter(|raw| *raw != &[0; 2]).map(i16le_to_value).collect()
RECURSIVE i16les_to_values(_)
i16les_to_values(raw) ==
    IF raw = <<>> THEN <<>>
    ELSE IF Head(raw) # <<0, 0>>
         THEN <<i16le_to_value(Head(raw))>> \o i16les_to_values(Tail(raw))
         ELSE i16les_to_values(Tail(raw))

\* core::str::from_utf8(ascii).is_ok(), from byte i on: the well-formed
\* byte sequences of UTF-8 (no overlong forms, no surrogates, nothing above
\* U+10FFFF)
RECURSIVE from_utf8(_, _)
from_utf8(b, i) ==
    LET In(j, lo, hi) == j <= Len(b) /\ b[j] >= lo /\ b[j] <= hi
        c == b[i]
    IN  IF i > Len(b) THEN TRUE
        ELSE IF c < 128 THEN from_utf8(b, i + 1)
        ELSE IF c >= 194 /\ c <= 223
             THEN In(i + 1, 128, 191) /\ from_utf8(b, i + 2)
        ELSE IF c >= 224 /\ c <= 239
             THEN /\ In(i + 1, IF c = 224 THEN 160 ELSE 128,
                              IF c = 237 THEN 159 ELSE 191)
                  /\ In(i + 2, 128, 191)
                  /\ from_utf8(b, i + 3)
        ELSE IF c >= 240 /\ c <= 244
             THEN /\ In(i + 1, IF c = 240 THEN 144 ELSE 128,
                              IF c = 244 THEN 143 ELSE 191)
                  /\ In(i + 2, 128, 191)
                  /\ In(i + 3, 128, 191)
                  /\ from_utf8(b, i + 4)
        ELSE FALSE

\* str::trim_matches(|c| c == '\0') on the bytes of a str: lo..hi is what
\* is left after the NULs at both ends are gone
RECURSIVE trim_matches(_, _, _)
trim_matches(b, lo, hi) ==
    IF lo > hi THEN <<>>
    ELSE IF b[lo] = 0 THEN trim_matches(b, lo + 1, hi)
    ELSE IF b[hi] = 0 THEN trim_matches(b, lo, hi - 1)
    ELSE SubSeq(b, lo, hi)

\* ascii_to_string: an Option, <<>> for Err(Utf8Error), else <<String>>,
\* the String being its bytes
ascii_to_string(ascii) ==
    IF from_utf8(ascii, 1) THEN << trim_matches(ascii, 1, Len(ascii)) >>
    ELSE <<>>

\* a conversion that hands back the bytes it could not read as text
ascii_to_string_safe_lossy(ascii) ==
    IF ascii_to_string(ascii) = <<>> THEN ascii
    ELSE ascii_to_string(ascii)[1]

\* ascii_to_string_safe: unwrap_or_default() after the warning
ascii_to_string_safe(ascii) ==
    IF ascii_to_string(ascii) = <<>> THEN <<>>
    ELSE ascii_to_string(ascii)[1]

\* i32::from_le_bytes(*raw), in units of mul
i32le_to_value(raw) ==
    (IF raw[4] >= 128 THEN raw[4] - 256 ELSE raw[4]) * 16777216
        + raw[3] * 65536 + raw[2] * 256 + raw[1]

\* u32::from_le_bytes(*raw), in units of mul
u32le_to_value(raw) ==
    raw[4] * 16777216 + raw[3] * 65536 + raw[2] * 256 + raw[1]

\* a conversion that takes the bytes in the opposite order
u32le_to_count_be(raw) ==
    raw[1] * 16777216 + raw[2] * 65536 + raw[3] * 256 + raw[4]

\* u32::from_le_bytes(*raw) as usize
u32le_to_count(raw) ==
    raw[4] * 16777216 + raw[3] * 65536 + raw[2] * 256 + raw[1]

(***************************************************************************)
(* lib.rs: DataBuffer.  `raw` is the Vec<u8>.                              *)
(***************************************************************************)
DataBufferInit == <<>>

add_data(raw, bytes) == raw \o bytes

\* a seal that pushes a constant byte
add_crc_without_sum(raw) == Append(raw, 0)

add_crc(raw) == Append(raw, checksum(<<>>, raw))

\* `self.raw.len() - 1` underflows on an empty Vec: crc() and data() panic
\* there (overflow check in debug builds, slice bounds check otherwise)
IndexPanics(raw) == Len(raw) = 0

crc(raw) == raw[Len(raw)]

data(raw) == SubSeq(raw, 1, Len(raw) - 1)

\* a check that trusts the trailing byte
check_data_crc_trusting(raw) == TRUE

check_data_crc(raw) ==
    IF Len(raw) < Len(RESPONSE_HEADER) + 1 THEN FALSE
    ELSE crc(raw) = checksum(<<>>, data(raw))

(***************************************************************************)
(* protocol.rs: decoding of the two business records.  The result is the   *)
(* error name, or "Ok" when a structure is produced.                       *)
(***************************************************************************)
\* a decoder that looks at the length only
DeviceInfoTryFrom_any_record(raw) ==
    IF Len(raw) < SizeOfRawDeviceInfo THEN "NotEnoughData" ELSE "Ok"

DeviceInfoTryFrom(raw) ==
    IF Len(raw) < SizeOfRawDeviceInfo THEN "NotEnoughData"
    ELSE IF raw[SizeOfRawResponse + 1] # REC_DEVICE_INFO THEN "BadRecordType"
    ELSE "Ok"

\* a decoder that takes the bytes it lacks as zero
CellDataTryFrom_defaulting(raw) ==
    IF Len(raw) <= SizeOfRawResponse THEN "NotEnoughData"
    ELSE IF raw[SizeOfRawResponse + 1] # REC_CELL_DATA THEN "BadRecordType"
    ELSE "Ok"

CellDataTryFrom(raw) ==
    IF Len(raw) < SizeOfRawCellData THEN "NotEnoughData"
    ELSE IF raw[SizeOfRawResponse + 1] # REC_CELL_DATA THEN "BadRecordType"
    ELSE "Ok"

\* the packed layouts: the fields in declaration order with their widths
RawDeviceInfoLayout ==
    << <<"record", 6>>, <<"device_model", 16>>, <<"hardware_version", 8>>,
       <<"software_version", 8>>, <<"up_time", 4>>, <<"poweron_times", 4>>,
       <<"device_name", 16>>, <<"device_passcode", 16>>,
       <<"manufacturing_date", 8>>, <<"serial_number", 11>>,
       <<"passcode", 5>>, <<"userdata", 16>>, <<"setup_passcode", 16>>,
       <<"userdata2", 16>> >>

RawCellDataLayout ==
    << <<"record", 6>>, <<"cell_voltage", 64>>, <<"_unknown0", 4>>,
       <<"average_cell_voltage", 2>>, <<"delta_cell_voltage", 2>>,
       <<"balance_current", 2>>, <<"cell_resistance", 64>>,
       <<"_unknown1", 6>>, <<"battery_voltage", 4>>, <<"battery_power", 4>>,
       <<"battery_current", 4>>, <<"battery_temperature", 4>>,
       <<"mosfet_temperature", 2>>, <<"_unknown2", 5>>,
       <<"remain_percent", 1>>, <<"remain_capacity", 4>>,
       <<"nominal_capacity", 4>>, <<"cycle_count", 4>>,
       <<"cycle_capacity", 4>>, <<"_unknown3", 4>>, <<"up_time", 4>>,
       <<"_unknown4", 24>>, <<"_charge_current", 2>>,
       <<"_discharge_current", 2>>, <<"_unknown5", 28>>,
       <<"mosfet_temperature2", 2>> >>

\* where a field of a packed layout starts: the widths before it
RECURSIVE Offset(_, _)
Offset(layout, name) ==
    IF Head(layout)[1] = name THEN 0
    ELSE Head(layout)[2] + Offset(Tail(layout), name)

Width(layout, name) ==
    LET k == CHOOSE k \in 1..Len(layout) : layout[k][1] = name
    IN  layout[k][2]

\* a field read one byte early
Field_early(raw, layout, name) ==
    SubSeq(raw, Offset(layout, name),
           Offset(layout, name) + Width(layout, name) - 1)

\* raw.<name> of the reference the slice was cast to
Field(raw, layout, name) ==
    SubSeq(raw, Offset(layout, name) + 1,
           Offset(layout, name) + Width(layout, name))

\* a byte array seen as [[u8; 2]; N]
Slots2(bytes) ==
    [k \in 1..(Len(bytes) \div 2) |-> <<bytes[2 * k - 1], bytes[2 * k]>>]

\* DeviceInfo::try_from(&RawDeviceInfo) where it is Ok
DeviceInfoFrom(raw) ==
    LET text(name) == ascii_to_string_safe(Field(raw, RawDeviceInfoLayout, name))
        count(name) == u32le_to_count(Field(raw, RawDeviceInfoLayout, name))
    IN  [ device_model |-> text("device_model"),
          hardware_version |-> text("hardware_version"),
          software_version |-> text("software_version"),
          up_time |-> count("up_time"),
          poweron_times |-> count("poweron_times"),
          device_name |-> text("device_name"),
          device_passcode |-> text("device_passcode"),
          manufacturing_date |-> text("manufacturing_date"),
          serial_number |-> text("serial_number"),
          passcode |-> text("passcode"),
          userdata |-> text("userdata"),
          setup_passcode |-> text("setup_passcode"),
          userdata2 |-> text("userdata2") ]

\* a choice that never looks at the second field
mosfet_temperature_primary(raw) ==
    i16le_to_value(Field(raw, RawCellDataLayout, "mosfet_temperature"))

\* the mosfet_temperature of CellData
mosfet_temperature(raw) ==
    i16le_to_value(
        IF Field(raw, RawCellDataLayout, "mosfet_temperature") # <<0, 0>>
        THEN Field(raw, RawCellDataLayout, "mosfet_temperature")
        ELSE Field(raw, RawCellDataLayout, "mosfet_temperature2"))

\* CellData::try_from(&RawCellData) where it is Ok; the f32 values in units
\* of their multiplier
CellDataFrom(raw) ==
    LET f(name) == Field(raw, RawCellDataLayout, name)
    IN  [ cell_voltage |-> i16les_to_values(Slots2(f("cell_voltage"))),
          average_cell_voltage |-> i16le_to_value(f("average_cell_voltage")),
          delta_cell_voltage |-> i16le_to_value(f("delta_cell_voltage")),
          balance_current |-> i16le_to_value(f("balance_current")),
          cell_resistance |-> i16les_to_values(Slots2(f("cell_resistance"))),
          battery_voltage |-> i32le_to_value(f("battery_voltage")),
          battery_power |-> i32le_to_value(f("battery_power")),
          battery_current |-> i32le_to_value(f("battery_current")),
          battery_temperature |->
              i16les_to_values(Slots2(f("battery_temperature"))),
          mosfet_temperature |-> mosfet_temperature(raw),
          remain_percent |-> f("remain_percent")[1],
          remain_capacity |-> u32le_to_value(f("remain_capacity")),
          nominal_capacity |-> u32le_to_value(f("nominal_capacity")),
          cycle_count |-> u32le_to_count(f("cycle_count")),
          cycle_capacity |-> u32le_to_value(f("cycle_capacity")),
          up_time |-> u32le_to_count(f("up_time")) ]

\* DataBuffer::data_as::<DeviceInfo>() / ::<CellData>() of device_info() and
\* cell_data(), reached only after process_request returned Ok
data_as(op, raw) ==
    IF op = "device_info" THEN DeviceInfoTryFrom(data(raw))
    ELSE CellDataTryFrom(data(raw))

(***************************************************************************)
(* lib.rs: Client::receive_messages, the body of the for loop over the     *)
(* sub-messages of one notification.  st = [msg_count, raw, ended].        *)
(***************************************************************************)
\* the start test as it would be without the look at the record type
IsStart_any_record(message, res, expected, record_type) ==
    message_type(res) = <<expected>>

\* the condition of the `else if` of the loop: the message opens the response
IsStart(message, res, expected, record_type) ==
    /\ message_type(res) = <<expected>>
    /\ IF record_type = <<>> THEN TRUE
       ELSE LET rec == RawRecordTryFrom(message)
            IN  IF rec = <<>> THEN FALSE
                ELSE rec[1].record_type = record_type[1]

\* an end test that takes a heartbeat for data
IsEnd_no_heartbeat(res) ==
    message_type(res) \in {<<"Request">>, <<"Response">>}

\* res.message_type().is_some() of the `End message` arm
IsEnd(res) == message_type(res) # <<>>

\* a loop that stops as soon as the buffer holds a response with a good
\* checksum
HandleMessage_until_complete(st, message, expected, record_type) ==
    LET res == RawResponseTryFrom(message)
    IN  IF res = <<>> THEN st
        ELSE IF st.msg_count > 0
             THEN IF IsEnd(res[1])
                  THEN [st EXCEPT !.ended = TRUE]
                  ELSE [st EXCEPT !.raw = add_data(st.raw, message),
                                  !.msg_count = st.msg_count + 1,
                                  !.ended = check_data_crc(
                                               add_data(st.raw, message))]
             ELSE IF IsStart(message, res[1], expected, record_type)
                  THEN [st EXCEPT !.raw = add_data(st.raw, message),
                                  !.msg_count = st.msg_count + 1]
                  ELSE st

HandleMessage(st, message, expected, record_type) ==
    LET res == RawResponseTryFrom(message)
    IN  IF res = <<>> THEN st
        ELSE IF st.msg_count > 0
             THEN IF IsEnd(res[1])
                  THEN [st EXCEPT !.ended = TRUE]
                  ELSE [st EXCEPT !.raw = add_data(st.raw, message),
                                  !.msg_count = st.msg_count + 1]
             ELSE IF IsStart(message, res[1], expected, record_type)
                  THEN [st EXCEPT !.raw = add_data(st.raw, message),
                                  !.msg_count = st.msg_count + 1]
                  ELSE st

RECURSIVE ForEachMessage(_, _, _, _, _)
ForEachMessage(st, msgs, i, expected, record_type) ==
    IF i > Len(msgs) \/ st.ended THEN st
    ELSE ForEachMessage(HandleMessage(st, msgs[i], expected, record_type),
                        msgs, i + 1, expected, record_type)

\* one notification for the subscribed characteristic
receive_messages(msg_count, raw, value, record_type) ==
    ForEachMessage([msg_count |-> msg_count, raw |-> raw, ended |-> FALSE],
                   MessageIter(value), 1, "Response", record_type)

\* process_request after receive_messages returned Ok(()): the outcome of
\* the validation of the assembled buffer
ValidateResponse(raw) ==
    IF IndexPanics(raw) THEN "Panic"
    ELSE LET rec == RawRecordTryFrom(data(raw))
         IN  IF rec # <<>> /\ message_type(rec[1].response) = <<"Response">>
             THEN IF check_data_crc(raw) THEN "Ok" ELSE "BadCrc"
             ELSE "LostConnection"

(***************************************************************************)
(* The environment: the adapter's peripherals and what the device sends.   *)
(***************************************************************************)
\* peripheral 1 is the device (matches the DeviceId, advertises the vendor
\* service), 2 matches the DeviceId but does not advertise the service, 3
\* advertises the service but is another device
PeriphIds == {1, 2, 3}

\* DeviceId::match_periphery, when it does not fail
MatchesIdentity(p) == p \in {1, 2}

\* check_service(periphery, JK_BMS), when it does not fail
AdvertisesService(p) == p \in {1, 3}

InfoData == RESPONSE_HEADER \o <<REC_DEVICE_INFO, 1>>
            \o Zeros(SizeOfRawDeviceInfo - SizeOfRawRecord)
InfoResponse == add_crc(InfoData)
CellDataBytes == RESPONSE_HEADER \o <<REC_CELL_DATA, 1>>
                 \o Zeros(SizeOfRawCellData - SizeOfRawRecord)
CellResponse == add_crc(CellDataBytes)
\* an info response cut in two notifications
InfoHead == SubSeq(InfoResponse, 1, 100)
InfoTail == SubSeq(InfoResponse, 101, Len(InfoResponse))
InfoTailBad == SubSeq(InfoResponse, 101, Len(InfoResponse) - 1)
               \o <<(crc(InfoResponse) + 1) % 256>>
CrcOnly == <<crc(InfoResponse)>>
\* a response too short for the layout, with a good checksum
ShortResponse == add_crc(RESPONSE_HEADER \o <<REC_DEVICE_INFO, 1, 0>>)
ShortStart == RESPONSE_HEADER \o <<REC_DEVICE_INFO>>
MinimalStart == RESPONSE_HEADER \o <<REC_DEVICE_INFO, 1>>
RequestEcho == REQUEST_HEADER \o <<CMD_DEVICE_INFO>>
Fragment == <<9, 9, 9, 9, 9>>

\* the values the device may send in a notification
Traffic ==
    { HEARTBEAT, RequestEcho, <<1, 2>>, Fragment,
      InfoResponse \o HEARTBEAT, CellResponse \o HEARTBEAT,
      InfoHead, InfoTail, InfoTailBad, InfoData, CrcOnly,
      ShortStart, MinimalStart, ShortResponse,
      add_crc(RESPONSE_HEADER \o <<REC_CELL_DATA, 1, 0>>),
      <<7, 7>> \o HEARTBEAT, Fragment \o MinimalStart }

\* the environment of one caller: anything of the above
OneCaller ==
    [ traffic |-> Traffic, known |-> PeriphIds, discovered |-> PeriphIds ]

\* the environment of two concurrent callers: the device alone, and the
\* shortest exchanges
TwoCallers ==
    [ traffic |-> {HEARTBEAT, MinimalStart, InfoResponse \o HEARTBEAT},
      known |-> {1}, discovered |-> {1, 3} ]

(***************************************************************************)
(* State.                                                                  *)
(***************************************************************************)
VARIABLES
    periphery_id,   \* Client::periphery_id, the cached handle: Option<id>
    data_buffer,    \* Client::data_buffer, the Vec<u8> inside the Mutex
    lock_owner,     \* the caller holding the MutexGuard: Option<task>
    connected,      \* the peripherals whose link is up
    task            \* per caller: the call in progress and its locals

vars == <<periphery_id, data_buffer, lock_owner, connected, task>>

Ops == {"open", "close", "address", "device_name", "device_info", "cell_data"}
Requests == {"device_info", "cell_data"}

\* a caller between calls, nothing recorded
NoCall ==
    [ op |-> "none", pc |-> "done", res |-> "None",
      pid |-> <<>>,          \* the id read from the cache
      periphery |-> <<>>,    \* the resolved Periphery
      via |-> "none",        \* how it was resolved: cache, known, scan
      stale |-> <<>>,        \* the cached id whose lookup failed
      cleared |-> FALSE,     \* this call wrote None to the cache
      reported |-> <<>>,     \* what is_connected() answered
      scan_result |-> "None",
      stop |-> "None",       \* what adapter.stop_scan answered
      record_type |-> <<>>,  \* send_request's record_type
      msg_count |-> 0,       \* receive_messages' msg_count
      xres |-> "None",       \* send_request's `res`
      timed_out |-> FALSE,
      after_close |-> FALSE, \* the caller's previous call was a close() = Ok
      found |-> <<>>,        \* find's found_peripheries
      devices |-> <<>>,      \* the Vec find returned: Option<list>
      listed |-> <<>>,       \* what adapter.peripherals() returned to open
      unsub |-> "None",      \* what periphery.unsubscribe answered
      ev |-> "none",         \* the last item of the notification stream
      value |-> <<>>,        \* its value
      written |-> <<>>,      \* the bytes given to periphery.write
      reused |-> FALSE,      \* the buffer held bytes when the guard was taken
      nlist |-> 0, nstart |-> 0, nstop |-> 0, nconnect |-> 0,
      ndisconnect |-> 0, nsub |-> 0, nunsub |-> 0, nwrite |-> 0 ]

Init ==
    /\ periphery_id = <<>>
    /\ data_buffer = DataBufferInit
    /\ lock_owner = <<>>
    /\ connected = {}
    /\ task = [t \in Tasks |-> NoCall]

FirstPc(op) ==
    CASE op = "open" -> "find_periphery"
      [] op = "close" -> "close"
      [] op \in {"address", "device_name"} -> "get_periphery"
      [] OTHER -> "make_request"

\* one command code for both operations
CommandOf_same(op) == CMD_DEVICE_INFO

CommandOf(op) == IF op = "device_info" THEN CMD_DEVICE_INFO ELSE CMD_CELL_DATA
RecordTypeOf(op) == IF op = "device_info" THEN REC_DEVICE_INFO ELSE REC_CELL_DATA

\* the call of caller t returns r: the MutexGuard of a request is dropped;
\* what the exchange held (send_request's locals) is gone, what the call did
\* to the handle stays recorded until the caller's next call
Return(t, rec, r) ==
    /\ task' = [task EXCEPT ![t] =
                  [rec EXCEPT !.pc = "done", !.res = r,
                              !.record_type = <<>>, !.msg_count = 0,
                              !.xres = "None", !.ev = "none",
                              !.value = <<>>, !.written = <<>>,
                              !.reused = FALSE]]
    /\ lock_owner' = IF lock_owner = <<t>> THEN <<>> ELSE lock_owner

Goto(t, rec, pc) ==
    /\ task' = [task EXCEPT ![t] = [rec EXCEPT !.pc = pc]]
    /\ UNCHANGED lock_owner

\* a caller starts a client operation
Call(t) ==
    /\ task[t].pc = "done"
    /\ \E op \in Ops :
         task' = [task EXCEPT ![t] =
                    [NoCall EXCEPT !.op = op, !.pc = FirstPc(op),
                                   !.after_close = /\ op = "close"
                                                   /\ task[t].op = "close"
                                                   /\ task[t].res = "Ok"]]
    /\ UNCHANGED <<periphery_id, data_buffer, lock_owner, connected>>

(***************************************************************************)
(* Client::get_periphery (address, device_name, send_request).             *)
(***************************************************************************)
\* where a caller goes on with the Periphery get_periphery returned
AfterGetPeriphery(op) ==
    CASE op = "address" -> "done"
      [] op = "device_name" -> "properties"
      [] OTHER -> "discover_services"

\* a get_periphery that searches the device again when the cache is empty
GetPeripheryRead_rediscovering(t) ==
    /\ task[t].pc = "get_periphery"
    /\ Goto(t, [task[t] EXCEPT !.pid = periphery_id],
            IF periphery_id = <<>> THEN "fp_peripherals" ELSE "gp_lookup")
    /\ UNCHANGED <<periphery_id, data_buffer, connected>>

\* get_periphery_id().await
GetPeripheryRead(t) ==
    /\ task[t].pc = "get_periphery"
    /\ Goto(t, [task[t] EXCEPT !.pid = periphery_id],
            IF periphery_id = <<>> THEN "gp_invalidate" ELSE "gp_lookup")
    /\ UNCHANGED <<periphery_id, data_buffer, connected>>

\* a get_periphery that stores the id it resolved
GetPeripheryLookup_storing(t) ==
    /\ task[t].pc = "gp_lookup"
    /\ \E found \in BOOLEAN :
         IF found
         THEN LET rec == [task[t] EXCEPT !.periphery = task[t].pid, !.via = "cache"]
              IN  /\ periphery_id' = task[t].pid
                  /\ IF AfterGetPeriphery(task[t].op) = "done"
                     THEN Return(t, rec, "Ok")
                     ELSE Goto(t, rec, AfterGetPeriphery(task[t].op))
         ELSE /\ Goto(t, [task[t] EXCEPT !.stale = task[t].pid], "gp_invalidate")
              /\ UNCHANGED periphery_id
    /\ UNCHANGED <<data_buffer, connected>>

\* adapter.peripheral(&periphery_id).await
GetPeripheryLookup(t) ==
    /\ task[t].pc = "gp_lookup"
    /\ \E found \in BOOLEAN :
         IF found
         THEN LET rec == [task[t] EXCEPT !.periphery = task[t].pid, !.via = "cache"]
              IN  IF AfterGetPeriphery(task[t].op) = "done"
                  THEN Return(t, rec, "Ok")
                  ELSE Goto(t, rec, AfterGetPeriphery(task[t].op))
         ELSE Goto(t, [task[t] EXCEPT !.stale = task[t].pid], "gp_invalidate")
    /\ UNCHANGED <<periphery_id, data_buffer, connected>>

\* a get_periphery that fails without writing the cache
GetPeripheryInvalidate_keeping(t) ==
    /\ task[t].pc = "gp_invalidate"
    /\ Return(t, task[t], "LostConnection")
    /\ UNCHANGED <<periphery_id, data_buffer, connected>>

\* set_periphery_id(None).await; Err(Error::LostConnection)
GetPeripheryInvalidate(t) ==
    /\ task[t].pc = "gp_invalidate"
    /\ periphery_id' = <<>>
    /\ Return(t, [task[t] EXCEPT !.cleared = TRUE], "LostConnection")
    /\ UNCHANGED <<data_buffer, connected>>

\* device_name: periphery.properties().await?.and_then(local_name)
DeviceNameProperties(t) ==
    /\ task[t].pc = "properties"
    /\ \E r \in {"Ok", "NotFound", "Bt"} : Return(t, task[t], r)
    /\ UNCHANGED <<periphery_id, data_buffer, connected>>

(***************************************************************************)
(* Client::open and Client::find_periphery, Client::scan.                  *)
(***************************************************************************)
FindPeripheryRead(t) ==
    /\ task[t].pc = "find_periphery"
    /\ Goto(t, [task[t] EXCEPT !.pid = periphery_id],
            IF periphery_id = <<>> THEN "fp_peripherals" ELSE "fp_lookup")
    /\ UNCHANGED <<periphery_id, data_buffer, connected>>

\* a find_periphery that goes on with the cached id whatever the lookup says
FindPeripheryLookup_reusing(t) ==
    /\ task[t].pc = "fp_lookup"
    /\ \E found \in BOOLEAN :
         Goto(t, [task[t] EXCEPT !.periphery = task[t].pid, !.via = "cache",
                                 !.stale = IF found THEN <<>> ELSE task[t].pid],
              "is_connected")
    /\ UNCHANGED <<periphery_id, data_buffer, connected>>

\* find_periphery: adapter.peripheral(&periphery_id).await of the cached id
FindPeripheryLookup(t) ==
    /\ task[t].pc = "fp_lookup"
    /\ \E found \in BOOLEAN :
         IF found
         THEN Goto(t, [task[t] EXCEPT !.periphery = task[t].pid, !.via = "cache"],
                   "is_connected")
         ELSE Goto(t, [task[t] EXCEPT !.stale = task[t].pid], "fp_peripherals")
    /\ UNCHANGED <<periphery_id, data_buffer, connected>>

\* for periphery in adapter.peripherals().await? { match_periphery ... }
\* peripherals() or a match_periphery fails; or the adapter lists some of
\* the peripherals it knows, in any order, and the first that matches is
\* taken; or none of the listed ones matches
FindPeripheryKnown(t, known) ==
    /\ task[t].pc = "fp_peripherals"
    /\ LET rec == [task[t] EXCEPT !.nlist = @ + 1]
       IN  \/ /\ Return(t, rec, "Bt")
              /\ UNCHANGED periphery_id
           \/ \E listed \in SUBSET known :
                IF \E q \in listed : MatchesIdentity(q)
                THEN \E p \in {q \in listed : MatchesIdentity(q)} :
                       /\ periphery_id' = <<p>>
                       /\ Goto(t, [rec EXCEPT !.periphery = <<p>>,
                                              !.via = "known",
                                              !.listed = <<listed>>],
                               "is_connected")
                ELSE /\ Goto(t, [rec EXCEPT !.listed = <<listed>>],
                             "start_scan")
                     /\ UNCHANGED periphery_id
    /\ UNCHANGED <<data_buffer, connected>>

\* adapter.start_scan(..).await?
FindPeripheryStartScan(t) ==
    /\ task[t].pc = "start_scan"
    /\ \E ok \in BOOLEAN :
         IF ok THEN Goto(t, [task[t] EXCEPT !.nstart = @ + 1], "scan")
         ELSE Return(t, task[t], "Bt")
    /\ UNCHANGED <<periphery_id, data_buffer, connected>>

\* a scan that takes the first peripheral that advertises the service
ScanEvent_any_device(t, discovered) ==
    /\ task[t].pc = "scan"
    /\ \/ \E p \in discovered, ok \in BOOLEAN :
            LET rec == [task[t] EXCEPT !.ev = "discovered", !.value = <<p>>]
            IN  IF ~ok
                THEN Goto(t, [rec EXCEPT !.scan_result = "Bt"], "stop_scan")
                ELSE IF AdvertisesService(p)
                     THEN Goto(t, [rec EXCEPT !.scan_result = "Ok",
                                              !.periphery = <<p>>,
                                              !.via = "scan"],
                               "stop_scan")
                     ELSE Goto(t, rec, "scan")
       \/ Goto(t, [task[t] EXCEPT !.scan_result = "NotFound"], "stop_scan")
    /\ UNCHANGED <<periphery_id, data_buffer, connected>>

\* scan(): one item of the adapter's event stream
ScanEvent(t, discovered) ==
    /\ task[t].pc = "scan"
    /\ \/ \E p \in discovered, ok \in BOOLEAN :
            LET rec == [task[t] EXCEPT !.ev = "discovered", !.value = <<p>>]
            IN  IF ~ok
                THEN Goto(t, [rec EXCEPT !.scan_result = "Bt"], "stop_scan")
                ELSE IF AdvertisesService(p) /\ MatchesIdentity(p)
                     THEN Goto(t, [rec EXCEPT !.scan_result = "Ok",
                                              !.periphery = <<p>>,
                                              !.via = "scan"],
                               "stop_scan")
                     ELSE Goto(t, rec, "scan")
       \/ Goto(t, [task[t] EXCEPT !.scan_result = "NotFound"], "stop_scan")
    /\ UNCHANGED <<periphery_id, data_buffer, connected>>

\* timeout(scan_timeout, self.scan()) expires
ScanTimeout(t) ==
    /\ task[t].pc = "scan"
    /\ Goto(t, [task[t] EXCEPT !.scan_result = "Timeout"], "stop_scan")
    /\ UNCHANGED <<periphery_id, data_buffer, connected>>

\* a find_periphery that returns the error of a failing stop_scan
FindPeripheryStopScan_failing(t) ==
    /\ task[t].pc = "stop_scan"
    /\ \E stop \in {"Ok", "Bt"} :
         LET rec == [task[t] EXCEPT !.nstop = @ + 1, !.stop = stop]
         IN  IF stop = "Bt"
             THEN /\ Return(t, rec, "Bt")
                  /\ UNCHANGED periphery_id
             ELSE IF task[t].scan_result = "Ok"
             THEN /\ periphery_id' = task[t].periphery
                  /\ Goto(t, rec, "is_connected")
             ELSE /\ Return(t, rec, task[t].scan_result)
                  /\ UNCHANGED periphery_id
    /\ UNCHANGED <<data_buffer, connected>>

\* adapter.stop_scan().await (its error is only logged), then the match on
\* scan_result
FindPeripheryStopScan(t) ==
    /\ task[t].pc = "stop_scan"
    /\ \E stop \in {"Ok", "Bt"} :
         LET rec == [task[t] EXCEPT !.nstop = @ + 1, !.stop = stop]
         IN  IF task[t].scan_result = "Ok"
             THEN /\ periphery_id' = task[t].periphery
                  /\ Goto(t, rec, "is_connected")
             ELSE /\ Return(t, rec, task[t].scan_result)
                  /\ UNCHANGED periphery_id
    /\ UNCHANGED <<data_buffer, connected>>

\* an open that connects whatever is_connected answered
OpenIsConnected_connecting(t) ==
    /\ task[t].pc = "is_connected"
    /\ \/ Return(t, task[t], "Bt")
       \/ Goto(t, [task[t] EXCEPT
                     !.reported = <<task[t].periphery[1] \in connected>>],
               "connect")
    /\ UNCHANGED <<periphery_id, data_buffer, connected>>

\* open: periphery.is_connected().await?
OpenIsConnected(t) ==
    /\ task[t].pc = "is_connected"
    /\ \/ Return(t, task[t], "Bt")
       \/ LET c == task[t].periphery[1] \in connected
              rec == [task[t] EXCEPT !.reported = <<c>>]
          IN  IF c THEN Return(t, rec, "Ok") ELSE Goto(t, rec, "connect")
    /\ UNCHANGED <<periphery_id, data_buffer, connected>>

\* open: periphery.connect().await?
OpenConnect(t) ==
    /\ task[t].pc = "connect"
    /\ LET rec == [task[t] EXCEPT !.nconnect = @ + 1]
       IN  \/ /\ connected' = connected \cup {task[t].periphery[1]}
              /\ Return(t, rec, "Ok")
           \/ /\ Return(t, rec, "Bt")
              /\ UNCHANGED connected
    /\ UNCHANGED <<periphery_id, data_buffer>>

(***************************************************************************)
(* Client::close                                                           *)
(***************************************************************************)
CloseRead(t) ==
    /\ task[t].pc = "close"
    /\ IF periphery_id = <<>>
       THEN Return(t, task[t], "Ok")
       ELSE Goto(t, [task[t] EXCEPT !.pid = periphery_id], "cl_lookup")
    /\ UNCHANGED <<periphery_id, data_buffer, connected>>

\* self.adapter.peripheral(&periphery_id).await?
CloseLookup(t) ==
    /\ task[t].pc = "cl_lookup"
    /\ \E found \in BOOLEAN :
         IF found
         THEN Goto(t, [task[t] EXCEPT !.periphery = task[t].pid, !.via = "cache"],
                   "cl_is_connected")
         ELSE Return(t, [task[t] EXCEPT !.stale = task[t].pid], "Bt")
    /\ UNCHANGED <<periphery_id, data_buffer, connected>>

\* a close that disconnects whatever is_connected answered
CloseIsConnected_disconnecting(t) ==
    /\ task[t].pc = "cl_is_connected"
    /\ \/ Return(t, task[t], "Bt")
       \/ Goto(t, [task[t] EXCEPT
                     !.reported = <<task[t].periphery[1] \in connected>>],
               "disconnect")
    /\ UNCHANGED <<periphery_id, data_buffer, connected>>

\* close: periphery.is_connected().await?
CloseIsConnected(t) ==
    /\ task[t].pc = "cl_is_connected"
    /\ \/ Return(t, task[t], "Bt")
       \/ LET c == task[t].periphery[1] \in connected
              rec == [task[t] EXCEPT !.reported = <<c>>]
          IN  IF c THEN Goto(t, rec, "disconnect") ELSE Return(t, rec, "Ok")
    /\ UNCHANGED <<periphery_id, data_buffer, connected>>

CloseDisconnect(t) ==
    /\ task[t].pc = "disconnect"
    /\ LET rec == [task[t] EXCEPT !.ndisconnect = @ + 1]
       IN  \/ /\ connected' = connected \ {task[t].periphery[1]}
              /\ Return(t, rec, "Ok")
           \/ /\ Return(t, rec, "Bt")
              /\ UNCHANGED connected
    /\ UNCHANGED <<periphery_id, data_buffer>>

\* the link to a connected peripheral drops
LinkLoss ==
    /\ \E p \in connected : connected' = connected \ {p}
    /\ UNCHANGED <<periphery_id, data_buffer, lock_owner, task>>

(***************************************************************************)
(* Client::device_info / cell_data: make_request, send_request,            *)
(* process_request, receive_messages.                                      *)
(***************************************************************************)
\* make_request as it would be if lock() never waited for the guard's owner
make_request_without_waiting(t) ==
    /\ task[t].pc = "make_request"
    /\ lock_owner' = <<t>>
    /\ data_buffer' = add_data(DataBufferInit, RawRequest(CommandOf(task[t].op)))
    /\ task' = [task EXCEPT ![t] =
                  [@ EXCEPT !.pc = "get_periphery",
                            !.reused = data_buffer # DataBufferInit,
                            !.record_type = <<RecordTypeOf(task[t].op)>>]]
    /\ UNCHANGED <<periphery_id, connected>>

\* self.data_buffer.lock().await; init(); add_data(cmd)
make_request(t) ==
    /\ task[t].pc = "make_request"
    /\ lock_owner = <<>>
    /\ lock_owner' = <<t>>
    /\ data_buffer' = add_data(DataBufferInit, RawRequest(CommandOf(task[t].op)))
    /\ task' = [task EXCEPT ![t] =
                  [@ EXCEPT !.pc = "get_periphery",
                            !.reused = data_buffer # DataBufferInit,
                            !.record_type = <<RecordTypeOf(task[t].op)>>]]
    /\ UNCHANGED <<periphery_id, connected>>

\* periphery.discover_services().await?; find_service_characteristic(..)
\*     .ok_or(Error::NotFound)?
DiscoverServices(t) ==
    /\ task[t].pc = "discover_services"
    /\ \/ \E e \in {"Bt", "NotFound"} : Return(t, task[t], e)
       \/ Goto(t, task[t], "subscribe")
    /\ UNCHANGED <<periphery_id, data_buffer, connected>>

\* a subscribe whose error is dropped: the exchange runs unsubscribed
Subscribe_ignoring_error(t) ==
    /\ task[t].pc = "subscribe"
    /\ data_buffer' = add_crc(data_buffer)
    /\ \/ Goto(t, task[t], "notifications")
       \/ Goto(t, [task[t] EXCEPT !.nsub = @ + 1], "notifications")
    /\ UNCHANGED <<periphery_id, connected>>

\* periphery.subscribe(&characteristic).await?; on success the timeout
\* future polls process_request up to its first await: add_crc()
Subscribe(t) ==
    /\ task[t].pc = "subscribe"
    /\ \/ /\ Return(t, task[t], "Bt")
          /\ UNCHANGED data_buffer
       \/ /\ data_buffer' = add_crc(data_buffer)
          /\ Goto(t, [task[t] EXCEPT !.nsub = @ + 1], "notifications")
    /\ UNCHANGED <<periphery_id, connected>>

\* process_request: periphery.notifications().await?
Notifications(t) ==
    /\ task[t].pc = "notifications"
    /\ \/ Goto(t, task[t], "write")
       \/ Goto(t, [task[t] EXCEPT !.xres = "Bt"], "unsubscribe")
    /\ UNCHANGED <<periphery_id, data_buffer, connected>>

\* process_request: periphery.write(..).await?; data_buffer.init()
Write(t) ==
    /\ task[t].pc = "write"
    /\ \/ /\ data_buffer' = DataBufferInit
          /\ Goto(t, [task[t] EXCEPT !.written = data_buffer, !.nwrite = @ + 1],
                  "receive_messages")
       \/ /\ Goto(t, [task[t] EXCEPT !.xres = "Bt", !.nwrite = @ + 1], "unsubscribe")
          /\ UNCHANGED data_buffer
    /\ UNCHANGED <<periphery_id, connected>>

\* receive_messages returned Ok(()): process_request validates the buffer;
\* a panic unwinds the call (the guard is dropped, nothing else runs)
Assembled(t, rec, raw) ==
    LET v == ValidateResponse(raw)
    IN  IF v = "Panic"
        THEN Return(t, [rec EXCEPT !.xres = "Panic"], "Panic")
        ELSE Goto(t, [rec EXCEPT !.xres = v], "unsubscribe")

\* a loop that takes the payload of any notification as data
OtherNotification_appending(t, traffic) ==
    /\ task[t].pc = "receive_messages"
    /\ \E value \in traffic :
         /\ data_buffer' = data_buffer \o value
         /\ Goto(t, [task[t] EXCEPT !.ev = "other", !.value = value],
                 "receive_messages")
    /\ UNCHANGED <<periphery_id, connected>>

\* notifications.next().await yields a notification of another characteristic
OtherNotification(t, traffic) ==
    /\ task[t].pc = "receive_messages"
    /\ \E value \in traffic :
         Goto(t, [task[t] EXCEPT !.ev = "other", !.value = value],
              "receive_messages")
    /\ UNCHANGED <<periphery_id, data_buffer, connected>>

\* the for loop over one notification's sub-messages left st behind
Received(t, value, st) ==
    LET rec == [task[t] EXCEPT !.ev = "notification", !.value = value,
                               !.msg_count = st.msg_count]
    IN  /\ st.msg_count <= MaxMsgCount
        /\ data_buffer' = st.raw
        /\ IF st.ended THEN Assembled(t, rec, st.raw)
           ELSE Goto(t, rec, "receive_messages")

\* notifications.next().await yields a notification of the characteristic
Notification(t, traffic) ==
    /\ task[t].pc = "receive_messages"
    /\ \E value \in traffic :
         Received(t, value, receive_messages(task[t].msg_count, data_buffer,
                                             value, task[t].record_type))
    /\ UNCHANGED <<periphery_id, connected>>

\* notifications.next().await yields None
StreamEnd(t) ==
    /\ task[t].pc = "receive_messages"
    /\ Assembled(t, [task[t] EXCEPT !.ev = "end"], data_buffer)
    /\ UNCHANGED <<periphery_id, data_buffer, connected>>

\* an expiry that returns at once, leaving the subscription behind
RequestTimeout_returning(t) ==
    /\ task[t].pc \in {"notifications", "write", "receive_messages"}
    /\ Return(t, [task[t] EXCEPT !.timed_out = TRUE], "Timeout")
    /\ UNCHANGED <<periphery_id, data_buffer, connected>>

\* timeout(request_timeout, process_request(..)) expires at one of
\* process_request's awaits
RequestTimeout(t) ==
    /\ task[t].pc \in {"notifications", "write", "receive_messages"}
    /\ Goto(t, [task[t] EXCEPT !.xres = "Timeout", !.timed_out = TRUE,
                                !.ev = "timeout"], "unsubscribe")
    /\ UNCHANGED <<periphery_id, data_buffer, connected>>

\* an unsubscribe whose failure also drops the cached handle
Unsubscribe_invalidating(t) ==
    /\ task[t].pc = "unsubscribe"
    /\ LET rec == [task[t] EXCEPT !.nunsub = @ + 1]
       IN  \/ /\ Return(t, [rec EXCEPT !.unsub = "Bt"], "Bt")
              /\ periphery_id' = <<>>
           \/ /\ Return(t, [rec EXCEPT !.unsub = "Ok"],
                        IF task[t].xres = "Ok"
                        THEN data_as(task[t].op, data_buffer)
                        ELSE task[t].xres)
              /\ UNCHANGED periphery_id
    /\ UNCHANGED <<data_buffer, connected>>

\* periphery.unsubscribe(&characteristic).await?; res; then the caller's
\* data_buffer.data_as::<T>()
Unsubscribe(t) ==
    /\ task[t].pc = "unsubscribe"
    /\ LET rec == [task[t] EXCEPT !.nunsub = @ + 1]
       IN  \/ Return(t, [rec EXCEPT !.unsub = "Bt"], "Bt")
           \/ Return(t, [rec EXCEPT !.unsub = "Ok"],
                     IF task[t].xres = "Ok"
                     THEN data_as(task[t].op, data_buffer)
                     ELSE task[t].xres)
    /\ UNCHANGED <<periphery_id, data_buffer, connected>>

(***************************************************************************)
(* Client::find and Client::scan_all: a static function of the adapter.    *)
(***************************************************************************)
FindCall(t) ==
    /\ task[t].pc = "done"
    /\ task' = [task EXCEPT ![t] = [NoCall EXCEPT !.op = "find", !.pc = "find"]]
    /\ UNCHANGED <<periphery_id, data_buffer, lock_owner, connected>>

\* adapter.start_scan(..).await?
FindStartScan(t) ==
    /\ task[t].pc = "find"
    /\ \E ok \in BOOLEAN :
         IF ok THEN Goto(t, [task[t] EXCEPT !.nstart = @ + 1], "fa_events")
         ELSE Return(t, task[t], "Bt")
    /\ UNCHANGED <<periphery_id, data_buffer, connected>>

\* scan_all: adapter.events().await?
FindEvents(t) ==
    /\ task[t].pc = "fa_events"
    /\ \E ok \in BOOLEAN :
         IF ok THEN Goto(t, task[t], "fa_next")
         ELSE Goto(t, [task[t] EXCEPT !.scan_result = "Bt"], "fa_stop")
    /\ UNCHANGED <<periphery_id, data_buffer, connected>>

\* scan_all: events.next().await yields an event: a discovery, or another
\* event that is skipped
FindEvent(t, discovered) ==
    /\ task[t].pc = "fa_next"
    /\ \/ \E p \in discovered :
            Goto(t, [task[t] EXCEPT !.pid = <<p>>, !.ev = "discovered"],
                 "fa_peripheral")
       \/ Goto(t, [task[t] EXCEPT !.ev = "other"], "fa_next")
    /\ UNCHANGED <<periphery_id, data_buffer, connected>>

\* a scan_all that returns Ok(()) when the stream ends
FindStreamEnd_ok(t) ==
    /\ task[t].pc = "fa_next"
    /\ Goto(t, [task[t] EXCEPT !.scan_result = "Ok", !.ev = "end"], "fa_stop")
    /\ UNCHANGED <<periphery_id, data_buffer, connected>>

\* scan_all: events.next().await yields None: Err(Error::NotFound)
FindStreamEnd(t) ==
    /\ task[t].pc = "fa_next"
    /\ Goto(t, [task[t] EXCEPT !.scan_result = "NotFound", !.ev = "end"],
            "fa_stop")
    /\ UNCHANGED <<periphery_id, data_buffer, connected>>

\* scan_all: adapter.peripheral(&periphery_id).await?
FindPeripheral(t) ==
    /\ task[t].pc = "fa_peripheral"
    /\ \E ok \in BOOLEAN :
         IF ok THEN Goto(t, [task[t] EXCEPT !.periphery = task[t].pid],
                         "fa_check")
         ELSE Goto(t, [task[t] EXCEPT !.scan_result = "Bt"], "fa_stop")
    /\ UNCHANGED <<periphery_id, data_buffer, connected>>

\* scan_all: check_service(&periphery, JK_BMS).await?, then the push
FindCheckService(t) ==
    /\ task[t].pc = "fa_check"
    /\ \/ Goto(t, [task[t] EXCEPT !.scan_result = "Bt"], "fa_stop")
       \/ IF AdvertisesService(task[t].periphery[1])
          THEN /\ Len(task[t].found) < MaxFound
               /\ Goto(t, [task[t] EXCEPT
                             !.found = Append(@, task[t].periphery[1])],
                       "fa_next")
          ELSE Goto(t, task[t], "fa_next")
    /\ UNCHANGED <<periphery_id, data_buffer, connected>>

\* a timeout that is reported as the Timeout error
FindTimeout_reported(t) ==
    /\ task[t].pc \in {"fa_events", "fa_next", "fa_peripheral", "fa_check"}
    /\ Goto(t, [task[t] EXCEPT !.scan_result = "Timeout", !.timed_out = TRUE,
                                !.ev = "timeout"], "fa_stop")
    /\ UNCHANGED <<periphery_id, data_buffer, connected>>

\* timeout(scan_timeout, scan_all(..)) expires at one of scan_all's awaits:
\* .or_else(|_| Ok(Ok(())))
FindTimeout(t) ==
    /\ task[t].pc \in {"fa_events", "fa_next", "fa_peripheral", "fa_check"}
    /\ Goto(t, [task[t] EXCEPT !.scan_result = "Ok", !.timed_out = TRUE,
                                !.ev = "timeout"], "fa_stop")
    /\ UNCHANGED <<periphery_id, data_buffer, connected>>

\* adapter.stop_scan().await (its error is only logged); scan_result?;
\* Ok(found_peripheries)
FindStopScan(t) ==
    /\ task[t].pc = "fa_stop"
    /\ \E stop \in {"Ok", "Bt"} :
         LET rec == [task[t] EXCEPT !.nstop = @ + 1, !.stop = stop]
         IN  IF task[t].scan_result = "Ok"
             THEN Return(t, [rec EXCEPT !.devices = <<task[t].found>>], "Ok")
             ELSE Return(t, rec, task[t].scan_result)
    /\ UNCHANGED <<periphery_id, data_buffer, connected>>

(***************************************************************************)
(* Specifications.                                                         *)
(***************************************************************************)
Step(t, env) ==
    \/ Call(t)
    \/ GetPeripheryRead(t)
    \/ GetPeripheryLookup(t)
    \/ GetPeripheryInvalidate(t)
    \/ DeviceNameProperties(t)
    \/ FindPeripheryRead(t)
    \/ FindPeripheryLookup(t)
    \/ FindPeripheryKnown(t, env.known)
    \/ FindPeripheryStartScan(t)
    \/ ScanEvent(t, env.discovered)
    \/ ScanTimeout(t)
    \/ FindPeripheryStopScan(t)
    \/ OpenIsConnected(t)
    \/ OpenConnect(t)
    \/ CloseRead(t)
    \/ CloseLookup(t)
    \/ CloseIsConnected(t)
    \/ CloseDisconnect(t)
    \/ make_request(t)
    \/ DiscoverServices(t)
    \/ Subscribe(t)
    \/ Notifications(t)
    \/ Write(t)
    \/ OtherNotification(t, env.traffic)
    \/ Notification(t, env.traffic)
    \/ StreamEnd(t)
    \/ RequestTimeout(t)
    \/ Unsubscribe(t)

\* one caller at a time uses the client
Next == Step(1, OneCaller) \/ LinkLoss

Spec == Init /\ [][Next]_vars

\* two callers share the client
NextConc == (\E t \in Tasks : Step(t, TwoCallers)) \/ LinkLoss

SpecConc == Init /\ [][NextConc]_vars

\* two callers share the client for open() and address(), with every
\* peripheral known to the adapter
NextRace ==
    \/ \E t \in Tasks :
          \/ Call(t) /\ task'[t].op \in {"open", "address"}
          \/ GetPeripheryRead(t)
          \/ GetPeripheryLookup(t)
          \/ GetPeripheryInvalidate(t)
          \/ FindPeripheryRead(t)
          \/ FindPeripheryLookup(t)
          \/ FindPeripheryKnown(t, PeriphIds)
          \/ FindPeripheryStartScan(t)
          \/ ScanEvent(t, PeriphIds)
          \/ ScanTimeout(t)
          \/ FindPeripheryStopScan(t)
          \/ OpenIsConnected(t)
          \/ OpenConnect(t)
    \/ LinkLoss

SpecRace == Init /\ [][NextRace]_vars

\* a caller runs Client::find on the adapter
NextFind ==
    \/ FindCall(1)
    \/ FindStartScan(1)
    \/ FindEvents(1)
    \/ FindEvent(1, PeriphIds)
    \/ FindStreamEnd(1)
    \/ FindPeripheral(1)
    \/ FindCheckService(1)
    \/ FindTimeout(1)
    \/ FindStopScan(1)

SpecFind == Init /\ [][NextFind]_vars

\* a caller runs open() and Client::find, the two operations that scan
NextScan ==
    \/ Call(1) /\ task'[1].op = "open"
    \/ FindPeripheryRead(1)
    \/ FindPeripheryLookup(1)
    \/ FindPeripheryKnown(1, PeriphIds)
    \/ FindPeripheryStartScan(1)
    \/ ScanEvent(1, PeriphIds)
    \/ ScanTimeout(1)
    \/ FindPeripheryStopScan(1)
    \/ OpenIsConnected(1)
    \/ OpenConnect(1)
    \/ LinkLoss
    \/ NextFind

SpecScan == Init /\ [][NextScan]_vars

(***************************************************************************)
(* main.rs, pull.rs, push.rs: the interrupt and the long-running loops.    *)
(* Here `task` holds the tasks of the runtime: the task intr_notify spawns *)
(* and the three loops.  A loop suspended in its select! has a Notified    *)
(* future of the shared Notify; notify_waiters() completes the futures     *)
(* that exist when it is called and stores nothing for later ones.         *)
(***************************************************************************)
Loops == {"scraper", "server", "pusher"}

InitIntr ==
    /\ periphery_id = <<>>
    /\ data_buffer = DataBufferInit
    /\ lock_owner = <<>>
    /\ connected = {}
    /\ task = [t \in Loops \cup {"intr"} |->
                 IF t = "intr" THEN [op |-> "intr_notify", pc |-> "ctrl_c"]
                 ELSE [op |-> t, pc |-> "select", notified |-> FALSE,
                       client |-> 0, missed |-> FALSE]]

\* the loop l goes to pc; an interrupt that arrives while the loop is not in
\* its select! finds no Notified future of it
LoopGoto(l, pc, client) ==
    task' = [task EXCEPT ![l] = [@ EXCEPT !.pc = pc, !.client = client,
                                          !.notified = FALSE]]

\* intr_notify's task: ctrl_c().await returns; notify.notify_waiters()
CtrlC ==
    /\ task["intr"].pc = "ctrl_c"
    /\ task' = [t \in DOMAIN task |->
                  IF t = "intr" THEN [task[t] EXCEPT !.pc = "done"]
                  ELSE IF task[t].pc = "select"
                       THEN [task[t] EXCEPT !.notified = TRUE]
                       ELSE IF task[t].pc = "exited" THEN task[t]
                            ELSE [task[t] EXCEPT !.missed = TRUE]]
    /\ UNCHANGED <<periphery_id, data_buffer, lock_owner, connected>>

\* select!: _ = poller.tick() => (); the Notified future is dropped
LoopTick(l) ==
    /\ l \in {"scraper", "pusher"}
    /\ task[l].pc = "select"
    /\ LoopGoto(l, "scrape", 1)
    /\ UNCHANGED <<periphery_id, data_buffer, lock_owner, connected>>

\* select!: _ = intr.notified() => break
LoopBreak(l) ==
    /\ task[l].pc = "select"
    /\ task[l].notified
    /\ task' = [task EXCEPT ![l] = [@ EXCEPT !.pc = "exited"]]
    /\ UNCHANGED <<periphery_id, data_buffer, lock_owner, connected>>

\* Exporter::scrape: the body of the for loop for one client; after the last
\* client the scraper is back at its select!, the pusher goes on to push
ScrapeClient(l) ==
    /\ task[l].pc = "scrape"
    /\ IF task[l].client < NumClients
       THEN task' = [task EXCEPT ![l] = [@ EXCEPT !.client = @ + 1]]
       ELSE IF l = "pusher"
            THEN task' = [task EXCEPT ![l] = [@ EXCEPT !.pc = "do_request",
                                                      !.client = 0]]
            ELSE task' = [task EXCEPT ![l] = [@ EXCEPT !.pc = "select",
                                                      !.client = 0]]
    /\ UNCHANGED <<periphery_id, data_buffer, lock_owner, connected>>

\* run_exporter_client: exporter.do_request(..).await, its error only logged
PushRequest(l) ==
    /\ task[l].pc = "do_request"
    /\ task' = [task EXCEPT ![l] = [@ EXCEPT !.pc = "select"]]
    /\ UNCHANGED <<periphery_id, data_buffer, lock_owner, connected>>

\* the accept loop: select!: acception = listener.accept() => Ok(..): the
\* connection is spawned and the loop is at its select! again
Accept(l) ==
    /\ l = "server"
    /\ task[l].pc = "select"
    /\ LoopGoto(l, "select", 0)
    /\ UNCHANGED <<periphery_id, data_buffer, lock_owner, connected>>

\* the accept loop: listener.accept() => Err(..): break
AcceptError(l) ==
    /\ l = "server"
    /\ task[l].pc = "select"
    /\ task' = [task EXCEPT ![l] = [@ EXCEPT !.pc = "exited"]]
    /\ UNCHANGED <<periphery_id, data_buffer, lock_owner, connected>>

LoopStep(l) ==
    \/ LoopTick(l)
    \/ LoopBreak(l)
    \/ ScrapeClient(l)
    \/ PushRequest(l)
    \/ Accept(l)
    \/ AcceptError(l)

NextIntr == CtrlC \/ \E l \in Loops : LoopStep(l)

\* every loop keeps running (timers tick, awaited operations come back), and
\* a select! that finds its Notified future completed again and again does
\* not pick the other branch for ever
SpecIntr ==
    /\ InitIntr
    /\ [][NextIntr]_vars
    /\ \A l \in Loops : WF_vars(LoopStep(l)) /\ SF_vars(LoopBreak(l))

(***************************************************************************)
(* protocol.rs: the framer on its own.  Here `data_buffer` is the buffer B *)
(* given to MessageIter::from and `task` the iterator with what it has     *)
(* yielded; B is put together from pieces: headers, parts of headers,      *)
(* other bytes, nothing.                                                   *)
(***************************************************************************)
Pieces ==
    { <<>>, HEARTBEAT, REQUEST_HEADER, RESPONSE_HEADER,
      <<0>>, <<3, 1>>, <<65, 84, 13>>, <<170>>, <<144, 235>>,
      <<7>> \o RESPONSE_HEADER \o <<7>> }

RECURSIVE Flatten(_)
Flatten(pieces) ==
    IF pieces = <<>> THEN <<>> ELSE Head(pieces) \o Flatten(Tail(pieces))

InitFramer ==
    /\ periphery_id = <<>>
    /\ lock_owner = <<>>
    /\ connected = {}
    /\ \E pieces \in [1..MaxPieces -> Pieces] :
         /\ data_buffer = Flatten(pieces)
         /\ task = [pieces |-> pieces, raw |-> Flatten(pieces),
                    items |-> <<>>, nones |-> 0]

\* what a call of next() does to the iterator: n is its answer
Yield(n) ==
    IF n = <<>>
    THEN /\ task.nones < MaxNones
         /\ task' = [task EXCEPT !.nones = @ + 1]
    ELSE task' = [task EXCEPT !.raw = n[2], !.items = Append(@, n[1])]

\* a call of MessageIter::next
FramerNext ==
    /\ Yield(MessageIterNext(task.raw))
    /\ UNCHANGED <<periphery_id, data_buffer, lock_owner, connected>>

SpecFramer == InitFramer /\ [][FramerNext]_vars

(***************************************************************************)
(* lib.rs: the DataBuffer on its own.  `data_buffer` is its Vec<u8>,       *)
(* `task` records the sequence S it was filled with, how far the sequence  *)
(* of calls has come, which bit (if any) was changed after add_crc and     *)
(* what check_data_crc answered.                                           *)
(***************************************************************************)
Bytes == {0, 1, 128, 255}

ByteSeqs == UNION { [1..n -> Bytes] : n \in 0..MaxData }

\* byte b with bit k inverted
flip_bit(b, k) ==
    IF (b \div 2^k) % 2 = 1 THEN b - 2^k ELSE b + 2^k

InitCrc ==
    /\ periphery_id = <<>>
    /\ lock_owner = <<>>
    /\ connected = {}
    /\ data_buffer = DataBufferInit
    /\ \E S \in ByteSeqs :
         task = [S |-> S, pc |-> "init", flipped |-> <<>>, ok |-> FALSE]

\* buffer.init(); buffer.add_data(S)
CrcAddData ==
    /\ task.pc = "init"
    /\ data_buffer' = add_data(DataBufferInit, task.S)
    /\ task' = [task EXCEPT !.pc = "filled"]
    /\ UNCHANGED <<periphery_id, lock_owner, connected>>

\* buffer.add_crc()
CrcAddCrc ==
    /\ task.pc = "filled"
    /\ data_buffer' = add_crc(data_buffer)
    /\ task' = [task EXCEPT !.pc = "sealed"]
    /\ UNCHANGED <<periphery_id, lock_owner, connected>>

\* the sealed bytes come back with bit k of byte i inverted
CrcFlipBit(i, k) ==
    /\ task.pc = "sealed"
    /\ data_buffer' = [data_buffer EXCEPT ![i] = flip_bit(@, k)]
    /\ task' = [task EXCEPT !.pc = "damaged", !.flipped = <<i, k>>]
    /\ UNCHANGED <<periphery_id, lock_owner, connected>>

\* buffer.check_data_crc()
CrcCheck ==
    /\ task.pc \in {"sealed", "damaged"}
    /\ task' = [task EXCEPT !.pc = "checked", !.ok = check_data_crc(data_buffer)]
    /\ UNCHANGED <<periphery_id, data_buffer, lock_owner, connected>>

NextCrc ==
    \/ CrcAddData
    \/ CrcAddCrc
    \/ \E i \in 1..Len(data_buffer), k \in 0..7 : CrcFlipBit(i, k)
    \/ CrcCheck

SpecCrc == InitCrc /\ [][NextCrc]_vars

(***************************************************************************)
(* protocol.rs: the two record decoders on their own.  `data_buffer` is    *)
(* the byte slice given to try_from, `task` what was asked and answered.   *)
(***************************************************************************)
\* lengths around the sizes of the raw layouts
BufferLens ==
    { 0, SizeOfRawResponse, SizeOfRawResponse + 1, SizeOfRawRecord,
      SizeOfRawDeviceInfo - 1, SizeOfRawDeviceInfo, SizeOfRawDeviceInfo + 1,
      SizeOfRawCellData - 1, SizeOfRawCellData, SizeOfRawCellData + 1 }

\* a slice of len bytes: 4 header bytes, the record-type byte, filler
Buffer(len, header, rt, fill) ==
    [i \in 1..len |-> IF i <= SizeOfRawResponse THEN header[i]
                      ELSE IF i = SizeOfRawResponse + 1 THEN rt
                      ELSE fill]

\* the device-info response of the test response_parse::device_info
DeviceInfoFixture ==
    << 85, 170, 235, 144, 3, 89, 74, 75, 95, 66, 68, 52, 65, 56, 83, 52,
       80, 0, 0, 0, 0, 0, 49, 53, 65, 0, 0, 0, 0, 0, 49, 53,
       46, 50, 54, 0, 0, 0, 124, 227, 24, 0, 1, 0, 0, 0, 97, 98,
       99, 100, 101, 102, 103, 104, 0, 0, 0, 0, 0, 0, 0, 0, 49, 50,
       51, 52, 0, 0, 0, 0, 0, 0, 0, 0, 0, 0, 0, 0, 50, 52,
       48, 56, 49, 56, 0, 0, 52, 48, 53, 51, 49, 51, 49, 48, 54, 50,
       57, 0, 48, 48, 48, 0, 74, 75, 45, 66, 77, 83, 0, 0, 0, 0,
       0, 0, 0, 0, 0, 0, 49, 50, 51, 52, 53, 54, 55, 56, 57, 0,
       0, 0, 0, 0, 0, 0, 74, 75, 45, 66, 77, 83, 0, 0, 0, 0,
       0, 0, 0, 0, 0, 0, 254, 255, 255, 255, 31, 233, 5, 2, 0, 0,
       0, 0, 144, 31, 0, 0, 0, 0, 192, 216, 231, 247, 60, 0, 0, 1,
       0, 0, 0, 0, 0, 0, 0, 0, 0, 0, 223, 39, 0, 0, 0, 0,
       0, 0, 0, 0, 0, 0, 0, 0, 0, 0, 223, 15, 0, 0, 0, 0,
       0, 0, 0, 0, 0, 0, 0, 0, 0, 0, 3, 223, 39, 0, 0, 0,
       0, 0, 0, 0, 0, 0, 0, 0, 0, 0, 9, 8, 0, 1, 100, 0,
       0, 0, 95, 0, 0, 0, 60, 0, 0, 0, 50, 0, 0, 0, 0, 0,
       0, 0, 0, 0, 0, 0, 16, 14, 0, 0, 50, 50, 1, 30, 0, 0,
       0, 0, 0, 0, 0, 0, 0, 0, 0, 0, 0, 0, 0, 0, 0, 254,
       159, 105, 159, 15, 0, 0, 0, 0, 0, 0, 0, 8 >>

\* the cell-data response of the test response_parse::cell_data
CellDataFixture ==
    << 85, 170, 235, 144, 2, 34, 80, 9, 80, 9, 80, 9, 80, 9, 80, 9,
       79, 9, 0, 0, 0, 0, 0, 0, 0, 0, 0, 0, 0, 0, 0, 0,
       0, 0, 0, 0, 0, 0, 0, 0, 0, 0, 0, 0, 0, 0, 0, 0,
       0, 0, 0, 0, 0, 0, 0, 0, 0, 0, 0, 0, 0, 0, 0, 0,
       0, 0, 0, 0, 0, 0, 63, 0, 0, 0, 80, 9, 0, 0, 0, 0,
       138, 0, 137, 0, 140, 0, 138, 0, 139, 0, 139, 0, 0, 0, 0, 0,
       0, 0, 0, 0, 0, 0, 0, 0, 0, 0, 0, 0, 0, 0, 0, 0,
       0, 0, 0, 0, 0, 0, 0, 0, 0, 0, 0, 0, 0, 0, 0, 0,
       0, 0, 0, 0, 0, 0, 0, 0, 0, 0, 0, 0, 0, 0, 0, 0,
       3, 1, 0, 0, 0, 0, 226, 55, 0, 0, 183, 8, 0, 0, 156, 0,
       0, 0, 238, 0, 243, 0, 0, 0, 0, 0, 0, 0, 0, 100, 224, 46,
       0, 0, 224, 46, 0, 0, 1, 0, 0, 0, 6, 65, 0, 0, 100, 0,
       0, 0, 124, 124, 23, 0, 1, 1, 0, 0, 0, 0, 0, 0, 0, 0,
       0, 0, 0, 0, 0, 0, 63, 0, 1, 0, 0, 0, 210, 3, 2, 0,
       1, 0, 173, 105, 62, 64, 0, 0, 0, 0, 150, 5, 0, 0, 0, 0,
       0, 1, 3, 6, 1, 0, 216, 220, 234, 0, 0, 0, 0, 0, 3, 1,
       48, 248, 48, 248, 207, 3, 218, 226, 204, 8, 158, 1, 0, 0, 128, 81,
       1, 0, 0, 0, 0, 0, 0, 0, 0, 0, 0, 0, 0, 0, 0, 254,
       255, 127, 220, 15, 1, 0, 128, 7, 0, 0, 0, 38 >>

\* raw with `bytes` written over it from offset `at` on
Patch(raw, at, bytes) ==
    [i \in 1..Len(raw) |->
        IF i > at /\ i <= at + Len(bytes) THEN bytes[i - at] ELSE raw[i]]

\* what a text field may hold: nothing, text between NULs, bytes that are
\* no UTF-8 (a lone 0xff, a cut sequence, a surrogate, an overlong form),
\* well-formed sequences of 2 and 4 bytes
TextPatterns ==
    { <<>>, <<0, 65, 0, 66>>, <<65, 255>>, <<195>>, <<237, 160, 128>>,
      <<224, 128, 128>>, <<195, 169>>, <<240, 159, 146, 150>> }

TextFields ==
    { "device_model", "hardware_version", "software_version", "device_name",
      "device_passcode", "manufacturing_date", "serial_number", "passcode",
      "userdata", "setup_passcode", "userdata2" }

\* device-info responses: the fixture with one text field or one counter
\* replaced
DeviceInfoInputs ==
    { DeviceInfoFixture }
    \cup
    { Patch(DeviceInfoFixture, Offset(RawDeviceInfoLayout, f),
            p \o Zeros(Width(RawDeviceInfoLayout, f) - Len(p))) :
        f \in TextFields, p \in TextPatterns }
    \cup
    { Patch(DeviceInfoFixture, Offset(RawDeviceInfoLayout, f), n) :
        f \in {"up_time", "poweron_times"},
        n \in { <<0, 0, 0, 1>>, <<255, 255, 255, 127>> } }

\* cell-data responses: the fixture with the two MOSFET temperature fields
\* replaced, or with a voltage slot zeroed or filled
CellDataInputs ==
    { CellDataFixture }
    \cup
    { Patch(Patch(CellDataFixture,
                  Offset(RawCellDataLayout, "mosfet_temperature"), a),
            Offset(RawCellDataLayout, "mosfet_temperature2"), b) :
        a \in { <<0, 0>>, <<3, 1>>, <<0, 1>>, <<1, 0>>, <<255, 255>> },
        b \in { <<0, 0>>, <<3, 1>>, <<255, 127>> } }
    \cup
    { Patch(CellDataFixture, Offset(RawCellDataLayout, "cell_voltage") + 2 * k, v) :
        k \in {0, 2, 5, 6, 31}, v \in { <<0, 0>>, <<1, 0>>, <<0, 128>> } }

\* the buffer as it is, cut after the layout of its record, cut one byte
\* earlier, or with other bytes after the layout
Tails(raw) ==
    LET size == IF raw[SizeOfRawResponse + 1] = REC_DEVICE_INFO
                THEN SizeOfRawDeviceInfo ELSE SizeOfRawCellData
    IN  { raw, SubSeq(raw, 1, size), SubSeq(raw, 1, size - 1),
          Patch(raw, size, <<85, 170, 235, 144, 255>>) }

InitDecode ==
    /\ periphery_id = <<>>
    /\ lock_owner = <<>>
    /\ connected = {}
    /\ \/ \E len \in BufferLens, header \in {RESPONSE_HEADER, REQUEST_HEADER},
             rt \in {0, REC_CELL_DATA, REC_DEVICE_INFO, 255}, fill \in {0, 3} :
            data_buffer = Buffer(len, header, rt, fill)
       \/ \E raw \in DeviceInfoInputs \cup CellDataInputs :
            data_buffer \in Tails(raw)
    /\ task = [pc |-> "init", what |-> "None", res |-> "None", rec |-> <<>>]

\* DeviceInfo::try_from(raw)
DecodeDeviceInfo ==
    /\ task.pc = "init"
    /\ task' = [pc |-> "decoded", what |-> "DeviceInfo",
                res |-> DeviceInfoTryFrom(data_buffer),
                rec |-> IF DeviceInfoTryFrom(data_buffer) = "Ok"
                        THEN DeviceInfoFrom(data_buffer) ELSE <<>>]
    /\ UNCHANGED <<periphery_id, data_buffer, lock_owner, connected>>

\* CellData::try_from(raw)
DecodeCellData ==
    /\ task.pc = "init"
    /\ task' = [pc |-> "decoded", what |-> "CellData",
                res |-> CellDataTryFrom(data_buffer),
                rec |-> IF CellDataTryFrom(data_buffer) = "Ok"
                        THEN CellDataFrom(data_buffer) ELSE <<>>]
    /\ UNCHANGED <<periphery_id, data_buffer, lock_owner, connected>>

NextDecode == DecodeDeviceInfo \/ DecodeCellData

SpecDecode == InitDecode /\ [][NextDecode]_vars

(***************************************************************************)
(* utils.rs: the decoding of an array of 2-byte slots on its own.          *)
(* `data_buffer` is the array [[u8; 2]; N], `task` the Vec returned.       *)
(***************************************************************************)
Slots == { <<0, 0>>, <<1, 0>>, <<0, 1>>, <<0, 128>>, <<255, 255>> }

InitSlots ==
    /\ periphery_id = <<>>
    /\ lock_owner = <<>>
    /\ connected = {}
    /\ \E n \in 0..MaxSlots : \E raw \in [1..n -> Slots] : data_buffer = raw
    /\ task = [pc |-> "init", values |-> <<>>]

\* i16les_to_values(&raw, mul)
DecodeSlots ==
    /\ task.pc = "init"
    /\ task' = [pc |-> "decoded", values |-> i16les_to_values(data_buffer)]
    /\ UNCHANGED <<periphery_id, data_buffer, lock_owner, connected>>

NextSlots == DecodeSlots

SpecSlots == InitSlots /\ [][NextSlots]_vars

(***************************************************************************)
(* cmdline.rs / exporter.rs: the loop over the clients of run_commands and *)
(* Exporter::scrape.  `task` is the loop: which of the two it is, the      *)
(* flags of run_commands, the client it is at, the call it makes next, the *)
(* outputs collected (client numbers standing for their records), the      *)
(* clients it opened and the reads that returned a record.  A client call  *)
(* returns Ok or an error, and a read may panic (Assembled).               *)
(***************************************************************************)
InitRun ==
    /\ periphery_id = <<>>
    /\ data_buffer = <<>>
    /\ lock_owner = <<>>
    /\ connected = {}
    /\ \E mode \in {"run_commands", "scrape"}, info, cell \in BOOLEAN :
         /\ mode = "scrape" => info /\ cell
         /\ task = [ mode |-> mode, want_info |-> info, want_cell |-> cell,
                     client |-> 1, pc |-> "open", res |-> "None",
                     device_info |-> <<>>, cell_data |-> <<>>,
                     opened |-> <<>>, read |-> {} ]

\* the call that follows `pc` for the same client, "next" for none
RunAfter(pc) ==
    IF pc = "open" /\ task.want_info THEN "device_info"
    ELSE IF pc \in {"open", "device_info"} /\ task.want_cell THEN "cell_data"
    ELSE IF pc = "close" THEN "next"
    ELSE "close"

\* the loop goes on with call pc of the same client, with the next client,
\* or leaves the for loop
RunGoto(rec, pc) ==
    task' = IF pc # "next" THEN [rec EXCEPT !.pc = pc]
            ELSE IF rec.client < NumClients
            THEN [rec EXCEPT !.client = @ + 1, !.pc = "open"]
            ELSE [rec EXCEPT !.pc = "format"]

\* client.open().await: an error is logged and the client left
RunOpen ==
    /\ task.pc = "open"
    /\ LET rec == [task EXCEPT !.opened = Append(@, task.client)]
       IN  \/ RunGoto(rec, RunAfter("open"))
           \/ RunGoto(rec, "next")
    /\ UNCHANGED <<periphery_id, data_buffer, lock_owner, connected>>

\* client.device_info().await / client.cell_data().await: Ok(record) is
\* pushed (scraped), an error is logged, a panic unwinds the loop
RunRead(op) ==
    /\ task.pc = op
    /\ \/ RunGoto([task EXCEPT ![op] = Append(@, task.client),
                                !.read = @ \cup {<<task.client, op>>}],
                   RunAfter(op))
       \/ RunGoto(task, RunAfter(op))
       \/ task' = [task EXCEPT !.pc = "panicked", !.res = "Panic"]
    /\ UNCHANGED <<periphery_id, data_buffer, lock_owner, connected>>

\* client.close().await: an error is logged
RunClose ==
    /\ task.pc = "close"
    /\ RunGoto(task, "next")
    /\ UNCHANGED <<periphery_id, data_buffer, lock_owner, connected>>

\* after the loop: scrape returns Ok(()); run_commands formats the outputs
\* (format_value(..)?) and returns
RunReturn ==
    /\ task.pc = "format"
    /\ \/ task' = [task EXCEPT !.pc = "returned", !.res = "Ok"]
       \/ /\ task.mode = "run_commands"
          /\ task' = [task EXCEPT !.pc = "returned", !.res = "Io"]
    /\ UNCHANGED <<periphery_id, data_buffer, lock_owner, connected>>

NextRun ==
    \/ RunOpen
    \/ \E op \in {"device_info", "cell_data"} : RunRead(op)
    \/ RunClose
    \/ RunReturn

SpecRun == InitRun /\ [][NextRun]_vars

(***************************************************************************)
(* Properties.                                                             *)
(***************************************************************************)
\* caller t is between the acquisition of the scratch buffer and its return
InFlight(t) ==
    /\ task[t].op \in Requests
    /\ task[t].pc \notin {"done", "make_request"}

\* C1: whatever the interleaving of device_info() and cell_data() calls on
\* the one Client, at most one call is between make_request and its return,
\* and that call is the holder of the scratch buffer's guard: the steps of
\* two exchanges never interleave and no second call touches the buffer.
C1_RequestsSerialized ==
    \A t \in Tasks :
        InFlight(t) =>
            /\ lock_owner = <<t>>
            /\ \A u \in Tasks \ {t} : ~InFlight(u)

\* one caller consumes notifications while the other waits for the buffer
C1_Witness ==
    /\ task[1].op = "device_info"
    /\ task[1].pc = "receive_messages"
    /\ task[1].msg_count = 1
    /\ task[2].op = "cell_data"
    /\ task[2].pc = "make_request"

\* caller t's step consumed a notification of the subscribed characteristic
NotificationStep(t) ==
    /\ task[t].pc = "receive_messages"
    /\ task'[t] # task[t]
    /\ task'[t].ev = "notification"

\* what the start of a response with record type rt looks like on the wire:
\* 55 AA EB 90, then the record type at offset 4
AcceptableStart(m, rt) ==
    /\ Len(m) >= 6
    /\ <<m[1], m[2], m[3], m[4]>> = <<85, 170, 235, 144>>
    /\ m[5] = rt

\* the least element of a non-empty set of indices, 0 for the empty set
First(idx) == IF idx = {} THEN 0 ELSE CHOOSE i \in idx : \A j \in idx : i <= j

\* the step of t from an empty buffer did to it what the first acceptable
\* start (the k-th sub-message, k = 0 when there is none) asks for
StartedBy(t, msgs, k) ==
    IF k = 0
    THEN /\ data_buffer' = <<>>
         /\ task'[t].msg_count = 0
         /\ task'[t].pc = "receive_messages"
    ELSE /\ task'[t].msg_count >= 1
         /\ StartsWith(data_buffer', msgs[k])

StartOf(msgs, rt) ==
    First({i \in 1..Len(msgs) : AcceptableStart(msgs[i], rt)})

StartAccepted(t, msgs) ==
    StartedBy(t, msgs, StartOf(msgs, task[t].record_type[1]))

\* C2: while no start has been accepted, a notification none of whose
\* sub-messages is a response header with the expected record type (at
\* least 6 bytes, byte 4 the record type) leaves the buffer empty and the
\* assembly waiting for a start; otherwise the buffer begins with the first
\* such sub-message and nothing before it was appended.
C2_StartAcceptance ==
    [][\A t \in Tasks :
         NotificationStep(t) /\ task[t].msg_count = 0 =>
            /\ data_buffer = <<>>
            /\ StartAccepted(t, MessageIter(task'[t].value))]_vars

\* a cell-data response arrived while device_info() waited for a start, and
\* was ignored
C2_Witness ==
    /\ task[1].op = "device_info"
    /\ task[1].pc = "receive_messages"
    /\ task[1].ev = "notification"
    /\ task[1].value = CellResponse \o HEARTBEAT
    /\ task[1].msg_count = 0
    /\ data_buffer = <<>>

\* the first 4 bytes of m are one of the three header constants
Recognized(m) ==
    /\ Len(m) >= 4
    /\ <<m[1], m[2], m[3], m[4]>> \in
          { <<65, 84, 13, 10>>, <<170, 85, 144, 235>>, <<85, 170, 235, 144>> }

\* msgs[lo] .. msgs[hi], one after the other
RECURSIVE Concat(_, _, _)
Concat(msgs, lo, hi) ==
    IF lo > hi THEN <<>> ELSE msgs[lo] \o Concat(msgs, lo + 1, hi)

\* the step of t took everything after the from-th sub-message as
\* continuation data up to the k-th, the first one with a header (k = 0 when
\* there is none), which ended the response
ContinuedUpTo(t, base, msgs, from, k) ==
    IF k = 0
    THEN /\ data_buffer' = base \o Concat(msgs, from + 1, Len(msgs))
         /\ task'[t].pc = "receive_messages"
    ELSE /\ data_buffer' = base \o Concat(msgs, from + 1, k - 1)
         /\ task'[t].pc = "unsubscribe"
         /\ task'[t].xres \in {"Ok", "BadCrc", "LostConnection"}

ContinuedFrom(t, base, msgs, from) ==
    ContinuedUpTo(t, base, msgs, from,
                  First({i \in (from + 1)..Len(msgs) : Recognized(msgs[i])}))

ContinuedAfterStart(t, msgs, k) ==
    k # 0 => ContinuedFrom(t, msgs[k], msgs, k)

\* C3: once a start has been accepted, every further sub-message of the same
\* or a later notification is appended to the buffer, whatever its length,
\* unless its first 4 bytes are one of the three header constants; the first
\* sub-message that has such a header ends the response and is not appended.
C3_ContinuationAppended ==
    [][\A t \in Tasks :
         NotificationStep(t) =>
            IF task[t].msg_count > 0
            THEN ContinuedFrom(t, data_buffer, MessageIter(task'[t].value), 0)
            ELSE ContinuedAfterStart(t, MessageIter(task'[t].value),
                    StartOf(MessageIter(task'[t].value),
                            task[t].record_type[1]))]_vars

\* caller t returns from send_request after the assembly ended by itself
AssembledReturn(t) ==
    /\ task[t].pc = "unsubscribe"
    /\ task[t].ev \in {"notification", "end"}
    /\ task'[t].pc = "done"

\* the sum of raw[lo] .. raw[hi]
RECURSIVE SumOfBytes(_, _, _)
SumOfBytes(raw, lo, hi) ==
    IF lo > hi THEN 0
    ELSE IF lo = hi THEN raw[lo]
    ELSE SumOfBytes(raw, lo, (lo + hi) \div 2)
         + SumOfBytes(raw, (lo + hi) \div 2 + 1, hi)

\* the last byte of raw is the 8-bit wrap-around sum of the bytes before it
TrailingSumGood(raw) ==
    raw[Len(raw)] = SumOfBytes(raw, 1, Len(raw) - 1) % 256

\* C4 as written: a record only from a buffer with the response header, the
\* expected record type and a good trailing sum; a bad trailing sum always
\* yields BadCrc.
C4_BadSumYieldsBadCrc ==
    [][\A t \in Tasks :
         AssembledReturn(t) =>
            /\ task'[t].res = "Ok" =>
                 /\ AcceptableStart(data_buffer, RecordTypeOf(task[t].op))
                 /\ TrailingSumGood(data_buffer)
            /\ ~TrailingSumGood(data_buffer) => task'[t].res = "BadCrc"]_vars

\* C4, amended: a record is returned only from a buffer with the response
\* header, the expected record type and a good trailing sum.  A buffer with
\* a bad trailing sum never yields a record: the call returns the
\* unsubscribe error when unsubscribe fails, else LostConnection when the
\* buffer has exactly the 6 bytes of a record header, else BadCrc.
C4_RecordOnlyIfValid ==
    [][\A t \in Tasks :
         AssembledReturn(t) =>
            /\ task'[t].res = "Ok" =>
                 /\ AcceptableStart(data_buffer, RecordTypeOf(task[t].op))
                 /\ TrailingSumGood(data_buffer)
            /\ ~TrailingSumGood(data_buffer) =>
                 task'[t].res =
                    IF task'[t].unsub = "Bt" THEN "Bt"
                    ELSE IF Len(data_buffer) = 6 THEN "LostConnection"
                    ELSE "BadCrc"]_vars

\* device_info() returned BadCrc for a full-length response whose last byte
\* is off by one
C4_Witness ==
    /\ task[1].op = "device_info"
    /\ task[1].pc = "done"
    /\ task[1].res = "BadCrc"
    /\ data_buffer = InfoHead \o InfoTailBad

\* caller t's exchange was cut by request_timeout and has not returned yet
TimedOut(t) == task[t].timed_out /\ task[t].pc # "done"

\* C5 as written: after request_timeout expired, unsubscribe is attempted
\* and the call returns Timeout.
C5_TimeoutReturned ==
    [][\A t \in Tasks :
         TimedOut(t) /\ task'[t] # task[t] =>
            /\ task'[t].nunsub = 1
            /\ task'[t].res = "Timeout"]_vars

\* C5, amended: when request_timeout expires the exchange is abandoned (the
\* call consumes nothing more and leaves the buffer as it is), the next
\* thing it does is the one unsubscribe, and it returns Timeout if the
\* unsubscribe succeeded and the unsubscribe error if it failed.
C5_TimeoutThenUnsubscribe ==
    [][\A t \in Tasks :
         /\ task'[t].timed_out /\ ~task[t].timed_out =>
              /\ task'[t].pc = "unsubscribe"
              /\ task'[t].nunsub = 0
              /\ data_buffer' = data_buffer
         /\ TimedOut(t) /\ task'[t] # task[t] =>
              /\ task'[t].pc = "done"
              /\ task'[t].nunsub = 1
              /\ data_buffer' = data_buffer
              /\ task'[t].res =
                    IF task'[t].unsub = "Ok" THEN "Timeout" ELSE "Bt"]_vars

\* cell_data() timed out in the middle of a response and returned Timeout
\* after its unsubscribe
C5_Witness ==
    /\ task[1].op = "cell_data"
    /\ task[1].pc = "done"
    /\ task[1].timed_out
    /\ task[1].nunsub = 1
    /\ task[1].res = "Timeout"
    /\ data_buffer # <<>>

\* C6: a device_info() / cell_data() call whose subscribe succeeded has
\* attempted exactly one unsubscribe when it is over, whatever the outcome
\* of the exchange.
C6_UnsubscribedOnce ==
    \A t \in Tasks :
        task[t].pc = "done" /\ task[t].nsub = 1 => task[t].nunsub = 1

\* caller t takes a step of the call it is in
StepOf(t) == task[t].pc # "done" /\ task'[t] # task[t]

\* C7: every step a device_info() / cell_data() call takes once
\* get_periphery has resolved the cached handle (discovery, subscribe,
\* write, assembly, timeout, validation, unsubscribe, decoding, with any
\* outcome) leaves the cached handle unchanged, and the cache goes from an
\* id to empty only in the failure path of get_periphery, which returns
\* LostConnection before anything of the exchange has run.
C7_FailedRequestKeepsCache ==
    [][/\ \A t \in Tasks :
            StepOf(t) /\ task[t].op \in Requests /\ task[t].periphery # <<>>
               => periphery_id' = periphery_id
       /\ periphery_id # <<>> /\ periphery_id' = <<>> =>
            \E t \in Tasks :
               /\ task[t].pc = "gp_invalidate"
               /\ task[t].periphery = <<>>
               /\ task[t].nsub = 0
               /\ task'[t].pc = "done"
               /\ task'[t].res = "LostConnection"]_vars

\* device_info() failed with BadCrc on the cached handle, which is still
\* cached
C7_Witness ==
    /\ task[1].op = "device_info"
    /\ task[1].pc = "done"
    /\ task[1].res = "BadCrc"
    /\ task[1].periphery = <<1>>
    /\ periphery_id = <<1>>

\* the operations that resolve the handle through get_periphery
GetPeripheryOps == {"address", "device_name", "device_info", "cell_data"}

\* C8 as written: an operation in which the lookup of the cached id failed
\* does not return with that id still in the cache, unless it has itself
\* found the device again.
C8_StaleIdGoneOnReturn ==
    [][\A t \in Tasks :
         StepOf(t) /\ task'[t].pc = "done" /\ task'[t].stale # <<>> =>
            \/ periphery_id' # task'[t].stale
            \/ task'[t].via \in {"known", "scan"}]_vars

\* C8, amended: in address(), device_name(), device_info() and cell_data()
\* a failed lookup of the cached id is followed at once by the clearing of
\* the cache and the return of LostConnection.  open() and close() never
\* clear the cache: close() leaves it as it is (a failed lookup returns the
\* adapter's error with the stale id still cached), open() only ever
\* stores the id of a peripheral it has just found.
C8_InvalidatedByGetPeriphery ==
    [][\A t \in Tasks :
         StepOf(t) =>
            /\ task[t].op \in GetPeripheryOps /\ task[t].stale # <<>> =>
                 /\ periphery_id' = <<>>
                 /\ task'[t].pc = "done"
                 /\ task'[t].res = "LostConnection"
            /\ task[t].op = "close" => periphery_id' = periphery_id
            /\ task[t].op = "open" =>
                 \/ periphery_id' = periphery_id
                 \/ /\ periphery_id' = task'[t].periphery
                    /\ periphery_id' # <<>>
                    /\ task'[t].via \in {"known", "scan"}]_vars

\* address() found the cached id stale, cleared the cache and returned
\* LostConnection
C8_Witness ==
    /\ task[1].op = "address"
    /\ task[1].pc = "done"
    /\ task[1].stale # <<>>
    /\ task[1].res = "LostConnection"
    /\ periphery_id = <<>>

\* open() of caller t has read the cache and has no usable cached handle: the
\* cache was empty or the lookup of the cached id failed
Rediscovering(t) ==
    /\ task[t].op = "open"
    /\ task[t].pc \notin {"find_periphery", "fp_lookup"}
    /\ task[t].pid = <<>> \/ task[t].stale # <<>>

\* C9: an open() that finds the cache empty or the cached id stale never
\* goes on with the handle of the cache: the handle it checks, connects and
\* returns was found among the known peripherals, listed once, or by the
\* scan, started only after that search, and when it returns Ok the cache
\* holds the id of that handle.
C9_OpenRediscovers ==
    \A t \in Tasks :
        Rediscovering(t) =>
            /\ task[t].via # "cache"
            /\ task[t].pc # "fp_peripherals" => task[t].nlist = 1
            /\ task[t].periphery # <<>> =>
                 /\ task[t].via \in {"known", "scan"}
                 /\ periphery_id = task[t].periphery
                    \/ task[t].pc = "stop_scan"
            /\ task[t].via = "scan" => task[t].nstart = 1
            /\ task[t].pc \in {"is_connected", "connect"}
                 => task[t].periphery # <<>>
            /\ task[t].pc = "done" /\ task[t].res = "Ok" =>
                 /\ task[t].periphery # <<>>
                 /\ periphery_id = task[t].periphery

\* open() found the cached id stale, scanned, connected the device it
\* discovered and returned Ok with that id cached
C9_Witness ==
    /\ task[1].op = "open"
    /\ task[1].pc = "done"
    /\ task[1].res = "Ok"
    /\ task[1].stale = <<2>>
    /\ task[1].via = "scan"
    /\ task[1].nconnect = 1
    /\ periphery_id = <<1>>

\* C10: an open() whose cached handle resolves and reports connected has
\* listed no peripherals, started no scan, connected nothing, returns Ok
\* and leaves the cache as it read it; an open() is at its connect, or has
\* connected, only if the handle reported not connected.
C10_OpenIdempotent ==
    \A t \in Tasks :
        task[t].op = "open" =>
            /\ task[t].via = "cache" /\ task[t].reported = <<TRUE>> =>
                 /\ task[t].pc = "done"
                 /\ task[t].res = "Ok"
                 /\ task[t].nlist = 0
                 /\ task[t].nstart = 0
                 /\ task[t].nconnect = 0
                 /\ periphery_id = task[t].pid
                 /\ periphery_id = task[t].periphery
            /\ task[t].pc = "connect" \/ task[t].nconnect > 0 =>
                 task[t].reported = <<FALSE>>

\* open() on the cached, connected handle returned Ok
C10_Witness ==
    /\ task[1].op = "open"
    /\ task[1].pc = "done"
    /\ task[1].res = "Ok"
    /\ task[1].via = "cache"
    /\ task[1].reported = <<TRUE>>
    /\ task[1].periphery[1] \in connected

\* C11 as written: a close() that follows a close() that returned Ok
\* performs no disconnect and returns Ok.
C11_SecondCloseOk ==
    \A t \in Tasks :
        task[t].op = "close" /\ task[t].after_close /\ task[t].pc = "done" =>
            /\ task[t].ndisconnect = 0
            /\ task[t].res = "Ok"

\* C11, amended: close() invokes disconnect, at most once, only if a handle
\* is cached, resolves and reports connected, and never changes the cached
\* handle.  With an empty cache it returns Ok without a disconnect.  A
\* close() that follows a close() that returned Ok performs no disconnect;
\* it returns Ok if the lookup of the cached id and is_connected succeed,
\* and the error of the one that fails otherwise.
C11_CloseIdempotent ==
    \A t \in Tasks :
        task[t].op = "close" =>
            /\ task[t].ndisconnect <= 1
            /\ task[t].pc = "disconnect" \/ task[t].ndisconnect > 0 =>
                 /\ task[t].pid # <<>>
                 /\ task[t].periphery = task[t].pid
                 /\ task[t].reported = <<TRUE>>
            /\ task[t].pc # "close" => periphery_id = task[t].pid
            /\ task[t].pc = "done" /\ task[t].pid = <<>> =>
                 /\ task[t].res = "Ok"
                 /\ task[t].ndisconnect = 0
            /\ task[t].after_close =>
                 /\ task[t].pc # "disconnect"
                 /\ task[t].ndisconnect = 0
                 /\ task[t].pc = "done" =>
                      task[t].res = IF task[t].reported = <<>> /\ task[t].pid # <<>>
                                    THEN "Bt" ELSE "Ok"

\* a second close() found the handle cached and not connected, and
\* returned Ok without a disconnect
C11_Witness ==
    /\ task[1].op = "close"
    /\ task[1].after_close
    /\ task[1].pc = "done"
    /\ task[1].res = "Ok"
    /\ task[1].reported = <<FALSE>>
    /\ task[1].ndisconnect = 0
    /\ periphery_id # <<>>

\* C12: when scan_timeout expires, Client::find stops the scan once and
\* returns Ok with the devices collected so far, the empty list when none
\* was collected; what it collects are, in order of discovery, the
\* discovered peripherals that advertise the vendor service.
C12_FindTimeoutIsOk ==
    [][\A t \in Tasks :
         task[t].op = "find" /\ StepOf(t) =>
            /\ task'[t].found # task[t].found =>
                 /\ task[t].ev = "discovered"
                 /\ task[t].pid[1] \in {1, 3}
                 /\ task'[t].found = task[t].found \o task[t].pid
            /\ task'[t].pc = "done" /\ task'[t].timed_out =>
                 /\ task'[t].res = "Ok"
                 /\ task'[t].devices = <<task[t].found>>
                 /\ task'[t].nstop = 1]_vars

\* the timeout expired before any device was discovered and find returned the
\* empty list
C12_Witness ==
    /\ task[1].op = "find"
    /\ task[1].pc = "done"
    /\ task[1].timed_out
    /\ task[1].res = "Ok"
    /\ task[1].devices = << <<>> >>
    /\ task[1].nstart = 1

\* the timeout expired after two devices were discovered and find returned
\* them
C12_FoundSome ==
    /\ task[1].op = "find"
    /\ task[1].pc = "done"
    /\ task[1].timed_out
    /\ task[1].res = "Ok"
    /\ task[1].devices = << <<3, 1>> >>

\* C13: after the interrupt is broadcast every long-running loop (the
\* pull-mode scraper loop, the accept loop, the push-mode loop) eventually
\* exits, whether the interrupt found the loop waiting in its select! or in
\* the middle of an iteration.
C13_LoopsExit ==
    (task["intr"].pc = "done") ~> (\A l \in Loops : task[l].pc = "exited")

\* C14: for any buffer B, what MessageIter has yielded so far followed by
\* what it still holds is B; every item is non-empty, so there are at most
\* Len(B) of them; once next() has answered None nothing is left, the items
\* concatenated are B (no item at all for the empty B), they are the
\* messages the session model iterates over, and a further next() answers
\* None again.
C14_FramerCompleteness ==
    /\ Flatten(task.items) \o task.raw = data_buffer
    /\ \A i \in 1..Len(task.items) : task.items[i] # <<>>
    /\ Len(task.items) <= Len(data_buffer)
    /\ task.nones > 0 =>
         /\ task.raw = <<>>
         /\ Flatten(task.items) = data_buffer
         /\ data_buffer = <<>> => task.items = <<>>
         /\ task.items = MessageIter(data_buffer)
         /\ MessageIterNext(task.raw) = <<>>

\* a buffer of stray bytes, a heartbeat and a response was split in three,
\* and next() has answered None twice
C14_Witness ==
    /\ data_buffer = <<0>> \o HEARTBEAT \o RESPONSE_HEADER \o <<3, 1>>
    /\ task.items = << <<0>>, HEARTBEAT, RESPONSE_HEADER \o <<3, 1>> >>
    /\ task.nones = 2

\* the three header constants, byte by byte
Headers ==
    { <<65, 84, 13, 10>>, <<170, 85, 144, 235>>, <<85, 170, 235, 144>> }

\* no header constant begins anywhere in p
HeaderFree(p) ==
    \A i \in 1..(Len(p) - 3) : <<p[i], p[i + 1], p[i + 2], p[i + 3]>> \notin Headers

\* the buffer is h1 || p1 || h2 || p2, its first four pieces, and the
\* iterator is exhausted
TwoFramesDone ==
    /\ task.pieces[1] \in Headers
    /\ task.pieces[3] \in Headers
    /\ \A i \in 5..Len(task.pieces) : task.pieces[i] = <<>>
    /\ task.nones > 0

TwoFrames ==
    <<task.pieces[1] \o task.pieces[2], task.pieces[3] \o task.pieces[4]>>

\* C15 as written: for any two headers and any two payloads the buffer
\* h1 || p1 || h2 || p2 is split into exactly h1 || p1 and h2 || p2.
C15_TwoMessagesAnyPayload ==
    TwoFramesDone => task.items = TwoFrames

\* C15, amended: for any two headers and any two payloads in which no header
\* constant occurs, the buffer h1 || p1 || h2 || p2 is split into exactly
\* h1 || p1 and h2 || p2; a payload in which a header constant occurs is
\* split at that occurrence as well, so that there are more than two
\* messages.
C15_TwoMessages ==
    TwoFramesDone =>
        IF HeaderFree(task.pieces[2]) /\ HeaderFree(task.pieces[4])
        THEN task.items = TwoFrames
        ELSE Len(task.items) > 2

\* a response with a payload followed by a request with another payload was
\* split in two
C15_Witness ==
    /\ task.pieces = <<RESPONSE_HEADER, <<3, 1>>, REQUEST_HEADER, <<144, 235>> >>
    /\ task.items = <<RESPONSE_HEADER \o <<3, 1>>, REQUEST_HEADER \o <<144, 235>> >>
    /\ task.nones = 1


\* C16 as written: for any byte sequence S the buffer S followed by
\* checksum(S) passes check_data_crc, and with any single bit of it inverted
\* it fails.
C16_RoundTripAnyLength ==
    task.pc = "checked" => (task.ok <=> task.flipped = <<>>)

\* C16, amended: for any byte sequence S of at least 4 bytes the buffer S
\* followed by checksum(S) passes check_data_crc; for a shorter S it fails,
\* the buffer being shorter than a response header and a sum byte; with any
\* single bit of S or of the sum byte inverted it fails whatever the length.
C16_RoundTrip ==
    task.pc = "checked" =>
        (task.ok <=> (task.flipped = <<>> /\ Len(task.S) >= Len(RESPONSE_HEADER)))

\* a sequence of 5 bytes was sealed, its sum byte wrapped around, a bit of
\* the sum byte was inverted and the check has answered
C16_Witness ==
    /\ task.pc = "checked"
    /\ Len(task.S) = 5
    /\ task.flipped # <<>>
    /\ task.flipped[1] = Len(data_buffer)
    /\ ~task.ok
    /\ Fold(task.S, 1, 5) < 255
    /\ task.S[1] = 255

\* a sequence of 4 bytes was sealed and passed the check untouched
C16_WitnessPassed ==
    /\ task.pc = "checked"
    /\ Len(task.S) = 4
    /\ task.flipped = <<>>
    /\ task.ok
    /\ task.S[1] = 255 /\ task.S[2] = 128


\* C17: the bytes every device_info() / cell_data() call gives to
\* periphery.write are exactly 20: the request header, one command byte,
\* 14 zero bytes and the 8-bit wrap-around sum of these 19 bytes, whatever
\* the scratch buffer held when the call took it.
C17_RequestFrame ==
    \A t \in Tasks :
        task[t].written # <<>> =>
            /\ Len(task[t].written) = 20
            /\ SubSeq(task[t].written, 1, 4) = <<170, 85, 144, 235>>
            /\ task[t].written[5] \in 0..255
            /\ \A i \in 6..19 : task[t].written[i] = 0
            /\ task[t].written[20] = SumOfBytes(task[t].written, 1, 19) % 256

\* a cell_data() call took the buffer with the bytes of an earlier request
\* in it and has written its frame
C17_Witness ==
    /\ task[1].op = "cell_data"
    /\ task[1].reused
    /\ task[1].nwrite = 1
    /\ task[1].written # <<>>
    /\ task[1].written[20] = (170 + 85 + 144 + 235 + 150) % 256


\* C18: the frame device_info() writes carries the command code 0x97 and its
\* response starts only with a record whose record-type byte is 0x03; the
\* frame cell_data() writes carries 0x96 and its response starts only with a
\* record whose record-type byte is 0x02.
C18_CommandPairs ==
    \A t \in Tasks :
        /\ task[t].written # <<>> =>
               task[t].written[5] = IF task[t].op = "device_info" THEN 151 ELSE 150
        /\ task[t].msg_count > 0 =>
               /\ Len(data_buffer) >= 6
               /\ data_buffer[5] = IF task[t].op = "device_info" THEN 3 ELSE 2

\* cell_data() has written its frame and the buffer holds the start of a
\* cell-data record
C18_Witness ==
    /\ task[1].op = "cell_data"
    /\ task[1].written # <<>>
    /\ task[1].written[5] = 150
    /\ task[1].msg_count > 0
    /\ data_buffer[5] = 2


\* C19: decoding a buffer as DeviceInfo gives an error whenever the byte at
\* offset 4 is not 0x03 (or is not there), decoding it as CellData gives an
\* error whenever that byte is not 0x02; the answer is an error or a
\* structure, never both.
C19_WrongRecordTypeFails ==
    task.pc = "decoded" =>
        /\ task.res \in {"Ok", "NotEnoughData", "BadRecordType"}
        /\ task.res = "Ok" =>
               /\ Len(data_buffer) >= 5
               /\ data_buffer[5] = IF task.what = "DeviceInfo" THEN 3 ELSE 2

\* a buffer long enough for either layout that holds a device-info record
\* was decoded as CellData and refused for its record type
C19_Witness ==
    /\ task.pc = "decoded"
    /\ task.what = "CellData"
    /\ Len(data_buffer) = 256
    /\ data_buffer[5] = 3
    /\ task.res = "BadRecordType"


\* the k-th slot of the array is not 00 00
NonZeroSlot(k) == data_buffer[k] # <<0, 0>>

\* the little-endian signed 16-bit number in slot k
SlotNumber(k) ==
    data_buffer[k][1] + 256 * data_buffer[k][2]
        - (IF data_buffer[k][2] >= 128 THEN 65536 ELSE 0)

\* C20: decoding an array of N 2-byte slots gives the values of exactly the
\* slots that are not 00 00 in their original order: N minus the number of
\* all-zero slots values, the value of a slot standing at the place that
\* counts the non-zero slots up to it.
C20_ZeroSlotsOmitted ==
    task.pc = "decoded" =>
        /\ Len(task.values) =
              Len(data_buffer)
                 - Cardinality({k \in 1..Len(data_buffer) : ~NonZeroSlot(k)})
        /\ \A k \in 1..Len(data_buffer) :
              NonZeroSlot(k) =>
                 task.values[Cardinality({j \in 1..k : NonZeroSlot(j)})]
                    = SlotNumber(k)

\* zero slots at the head and in the middle of an array of 4 were left out
C20_Witness ==
    /\ task.pc = "decoded"
    /\ data_buffer = << <<0, 0>>, <<1, 0>>, <<0, 0>>, <<255, 255>> >>
    /\ task.values = <<1, -1>>


\* the 2-byte field at 0-based offset `at` of the buffer decoded
C21_At(at) == <<data_buffer[at + 1], data_buffer[at + 2]>>

\* the little-endian signed 16-bit number in a 2-byte field
C21_Number(f) == f[1] + 256 * f[2] - (IF f[2] >= 128 THEN 65536 ELSE 0)

\* C21: the mosfet_temperature of a decoded CellData is the number in the
\* 2-byte field at offset 166 whenever that field is not 00 00, and the
\* number in the field at offset 254 exactly when the field at 166 is 00 00.
C21_MosfetFallback ==
    task.pc = "decoded" /\ task.what = "CellData" /\ task.res = "Ok" =>
        task.rec.mosfet_temperature =
            IF C21_At(166) # <<0, 0>> THEN C21_Number(C21_At(166))
            ELSE C21_Number(C21_At(254))

\* the fixture was decoded: its field at 166 is 00 00 and the 25.9 degrees
\* come from offset 254
C21_Witness ==
    /\ task.pc = "decoded"
    /\ task.what = "CellData"
    /\ data_buffer = CellDataFixture
    /\ C21_At(166) = <<0, 0>>
    /\ C21_At(254) = <<3, 1>>
    /\ task.rec.mosfet_temperature = 259

\* a primary field that is not 00 00 but has a zero byte was used, the
\* secondary field being different
C21_WitnessPrimary ==
    /\ task.pc = "decoded"
    /\ task.what = "CellData"
    /\ task.res = "Ok"
    /\ C21_At(166) = <<0, 1>>
    /\ C21_At(254) = <<255, 127>>
    /\ task.rec.mosfet_temperature = 256


\* the fields of DeviceInfo in wire order and their widths
C22_Names ==
    << "device_model", "hardware_version", "software_version", "up_time",
       "poweron_times", "device_name", "device_passcode",
       "manufacturing_date", "serial_number", "passcode", "userdata",
       "setup_passcode", "userdata2" >>

C22_Widths == <<16, 8, 8, 4, 4, 16, 16, 8, 11, 5, 16, 16, 16>>

\* 0-based offset of the k-th field: the 6-byte record header and the
\* widths before it
RECURSIVE C22_Start(_)
C22_Start(k) == IF k = 1 THEN 6 ELSE C22_Start(k - 1) + C22_Widths[k - 1]

C22_Bytes(k) ==
    SubSeq(data_buffer, C22_Start(k) + 1, C22_Start(k) + C22_Widths[k])

\* the little-endian unsigned number in the 4 bytes from 0-based offset at
C22_U32(at) ==
    data_buffer[at + 1] + 256 * data_buffer[at + 2]
        + 65536 * data_buffer[at + 3] + 16777216 * data_buffer[at + 4]

\* C22: DeviceInfo decoding succeeds on every buffer of at least 150 bytes
\* with record type 0x03, whatever follows byte 150, and reads every field
\* at its fixed offset after the 6-byte record header, widths
\* 16,8,8,4,4,16,16,8,11,5,16,16,16 (up_time the little-endian u32 at
\* 38..42, poweron_times at 42..46); on the fixture it gives device_model
\* "JK_BD4A8S4P", hardware_version "15A", software_version "15.26",
\* up_time 1631100, poweron_times 1.
C22_DeviceInfoLayout ==
    task.pc = "decoded" /\ task.what = "DeviceInfo" =>
        /\ task.res = "Ok" <=> (Len(data_buffer) >= 150 /\ data_buffer[5] = 3)
        /\ task.res = "Ok" =>
              /\ \A k \in 1..13 :
                    task.rec[C22_Names[k]] =
                        IF C22_Widths[k] = 4 THEN C22_U32(C22_Start(k))
                        ELSE ascii_to_string_safe(C22_Bytes(k))
              /\ task.rec.up_time = C22_U32(38)
              /\ task.rec.poweron_times = C22_U32(42)
              /\ C22_Start(13) + C22_Widths[13] = 150
        /\ (/\ Len(data_buffer) >= 150
            /\ SubSeq(data_buffer, 1, 150) = SubSeq(DeviceInfoFixture, 1, 150)) =>
              /\ task.rec.device_model = <<74, 75, 95, 66, 68, 52, 65, 56, 83, 52, 80>>
              /\ task.rec.hardware_version = <<49, 53, 65>>
              /\ task.rec.software_version = <<49, 53, 46, 50, 54>>
              /\ task.rec.up_time = 1631100
              /\ task.rec.poweron_times = 1

\* the fixture was decoded with other bytes put after its 150th byte
C22_Witness ==
    /\ task.pc = "decoded"
    /\ task.what = "DeviceInfo"
    /\ Len(data_buffer) = 300
    /\ SubSeq(data_buffer, 1, 150) = SubSeq(DeviceInfoFixture, 1, 150)
    /\ data_buffer[151] # DeviceInfoFixture[151]
    /\ task.rec.device_model = <<74, 75, 95, 66, 68, 52, 65, 56, 83, 52, 80>>
    /\ task.rec.up_time = 1631100


\* the little-endian number in the n bytes from 0-based offset at
RECURSIVE C23_LE(_, _)
C23_LE(at, n) ==
    IF n = 0 THEN 0 ELSE data_buffer[at + 1] + 256 * C23_LE(at + 1, n - 1)

\* the 2-byte slots from offset 6 on, up to the k-th, that are not 00 00
C23_NonZero(k) == {j \in 0..(k - 1) : C23_LE(6 + 2 * j, 2) # 0}

\* C23: CellData decoding succeeds on every buffer of at least 256 bytes
\* with record type 0x02, whatever follows byte 256, and reads the 32
\* voltage slots at 6..70, the battery voltage at 150..154, remain_percent
\* at 173, cycle_count at 182..186 and up_time at 194..198, little-endian;
\* on the fixture it gives the 6 cell voltages 2384, 2384, 2384, 2384,
\* 2384, 2383 (x 0.001 V), battery voltage 14306, remain_percent 100,
\* cycle_count 1 and up_time 1539196.
C23_CellDataLayout ==
    task.pc = "decoded" /\ task.what = "CellData" =>
        /\ task.res = "Ok" <=> (Len(data_buffer) >= 256 /\ data_buffer[5] = 2)
        /\ task.res = "Ok" =>
              /\ Len(task.rec.cell_voltage) = Cardinality(C23_NonZero(32))
              /\ \A j \in C23_NonZero(32) :
                    task.rec.cell_voltage[Cardinality(C23_NonZero(j + 1))] =
                        C23_LE(6 + 2 * j, 2)
                           - (IF data_buffer[6 + 2 * j + 2] >= 128
                              THEN 65536 ELSE 0)
              /\ task.rec.battery_voltage = C23_LE(150, 4)
              /\ task.rec.remain_percent = data_buffer[173 + 1]
              /\ task.rec.cycle_count = C23_LE(182, 4)
              /\ task.rec.up_time = C23_LE(194, 4)
        /\ (/\ Len(data_buffer) >= 256
            /\ SubSeq(data_buffer, 1, 256) = SubSeq(CellDataFixture, 1, 256)) =>
              /\ task.rec.cell_voltage = <<2384, 2384, 2384, 2384, 2384, 2383>>
              /\ task.rec.battery_voltage = 14306
              /\ task.rec.remain_percent = 100
              /\ task.rec.cycle_count = 1
              /\ task.rec.up_time = 1539196

\* the fixture was decoded with other bytes put after its 256th byte
C23_Witness ==
    /\ task.pc = "decoded"
    /\ task.what = "CellData"
    /\ Len(data_buffer) = 300
    /\ SubSeq(data_buffer, 1, 256) = SubSeq(CellDataFixture, 1, 256)
    /\ data_buffer[257] # CellDataFixture[257]
    /\ task.rec.cell_voltage = <<2384, 2384, 2384, 2384, 2384, 2383>>
    /\ task.rec.up_time = 1539196


\* r is b without the NUL bytes at its two ends
C26_Trimmed(b, r) ==
    \E lo \in 1..(Len(b) + 1) : \E hi \in (lo - 1)..Len(b) :
        /\ r = SubSeq(b, lo, hi)
        /\ \A i \in 1..(lo - 1) : b[i] = 0
        /\ \A i \in (hi + 1)..Len(b) : b[i] = 0
        /\ r # <<>> => r[1] # 0 /\ r[Len(r)] # 0

\* every byte of b is an ASCII code
C26_Ascii(b) == \A i \in 1..Len(b) : b[i] < 128

\* the k-th field of DeviceInfo is a text field
C26_Text(k) == C22_Widths[k] # 4

\* a buffer long enough for DeviceInfo with record type 0x03 was decoded
C26_Decoded ==
    /\ task.pc = "decoded"
    /\ task.what = "DeviceInfo"
    /\ Len(data_buffer) >= 150
    /\ data_buffer[5] = 3

\* C26 as written, the encoding being the ASCII the fields are specified to
\* hold: a text field with a byte that is no ASCII code decodes to the
\* empty string, every other text field to its bytes without the NULs at
\* both ends, and the record is returned.
C26_NonAsciiIsEmpty ==
    C26_Decoded =>
        /\ task.res = "Ok"
        /\ \A k \in 1..13 :
              C26_Text(k) =>
                 IF C26_Ascii(C22_Bytes(k))
                 THEN C26_Trimmed(C22_Bytes(k), task.rec[C22_Names[k]])
                 ELSE task.rec[C22_Names[k]] = <<>>

\* C26, amended: a text field whose bytes are not well-formed UTF-8 decodes
\* to the empty string without failing the record, every field that is
\* well-formed UTF-8 (bytes above 0x7f included) decodes to its bytes
\* without the NUL bytes at both ends, whatever the other fields hold, and
\* the counters are read as they are.
C26_InvalidTextIsEmpty ==
    C26_Decoded =>
        /\ task.res = "Ok"
        /\ \A k \in 1..13 :
              IF ~C26_Text(k)
              THEN task.rec[C22_Names[k]] = C22_U32(C22_Start(k))
              ELSE IF from_utf8(C22_Bytes(k), 1)
              THEN C26_Trimmed(C22_Bytes(k), task.rec[C22_Names[k]])
              ELSE task.rec[C22_Names[k]] = <<>>

\* device_name held bytes that are no UTF-8: it came out empty and the
\* fields around it as in the fixture
C26_Witness ==
    /\ C26_Decoded
    /\ ~from_utf8(C22_Bytes(6), 1)
    /\ task.rec.device_name = <<>>
    /\ task.rec.device_model = <<74, 75, 95, 66, 68, 52, 65, 56, 83, 52, 80>>
    /\ task.rec.poweron_times = 1
    /\ task.rec.device_passcode = <<49, 50, 51, 52>>

\* a field with a NUL in front and one inside kept the inner one
C26_WitnessTrimmed ==
    /\ C26_Decoded
    /\ SubSeq(C22_Bytes(2), 1, 5) = <<0, 65, 0, 66, 0>>
    /\ task.rec.hardware_version = <<65, 0, 66>>


\* Ok, or one of the errors of the Error enum a client call can end with
C24_Typed ==
    { "Ok", "Bt", "Timeout", "NotFound", "BadCrc", "BadRecordType",
      "LostConnection", "NotEnoughData" }

\* the step is taken by caller t from where its call stands at pc
C24_From(t, pc) == task[t].pc = pc /\ task'[t] # task[t]

\* C24: no operation is retried inside the client: a call subscribes only
\* if it has not subscribed, writes only if it has not written, starts a
\* scan only if it has not started one and connects only if it has not
\* connected, a failed attempt is not repeated, and every call ends with Ok
\* or with a typed error.
C24_NoRetries ==
    [][\A t \in Tasks :
         /\ C24_From(t, "subscribe") =>
               /\ task[t].nsub = 0
               /\ task'[t].nsub = 1 \/ task'[t].pc = "done"
         /\ C24_From(t, "write") /\ ~task'[t].timed_out =>
               /\ task[t].nwrite = 0
               /\ task'[t].nwrite = 1
         /\ C24_From(t, "start_scan") =>
               /\ task[t].nstart = 0
               /\ task'[t].nstart = 1 \/ task'[t].pc = "done"
         /\ C24_From(t, "connect") =>
               /\ task[t].nconnect = 0
               /\ task'[t].nconnect = 1
               /\ task'[t].pc = "done"
         /\ task[t].pc # "done" /\ task'[t].pc = "done" =>
               task'[t].res \in C24_Typed]_vars


\* the clients 1..n in list order
C25_Clients(n) == [k \in 1..n |-> k]

\* the clients of seq, in order, whose read `op` returned a record
RECURSIVE C25_Succeeded(_, _)
C25_Succeeded(seq, op) ==
    IF seq = <<>> THEN <<>>
    ELSE (IF <<Head(seq), op>> \in task.read THEN <<Head(seq)>> ELSE <<>>)
            \o C25_Succeeded(Tail(seq), op)

\* C25: when run_commands or Exporter::scrape is over, every client was
\* opened, in list order, whatever calls of the clients before it failed;
\* the outputs hold exactly the records of the reads that succeeded; and
\* Exporter::scrape has returned Ok.
C25_AllClientsAttempted ==
    /\ task.device_info = C25_Succeeded(task.opened, "device_info")
    /\ task.cell_data = C25_Succeeded(task.opened, "cell_data")
    /\ task.pc \in {"returned", "panicked"} =>
          /\ task.opened = C25_Clients(NumClients)
          /\ task.mode = "scrape" => task.res = "Ok"


\* the 0-based offsets in B at which the items yielded begin
C27_Boundaries ==
    { Len(Flatten(SubSeq(task.items, 1, k - 1))) : k \in 1..Len(task.items) }

\* one of the three header constants begins at 0-based offset i of b
C27_HeaderAt(b, i) ==
    /\ i + 4 <= Len(b)
    /\ <<b[i + 1], b[i + 2], b[i + 3], b[i + 4]>> \in Headers

\* C27: for any non-empty buffer B, when MessageIter is exhausted the
\* messages begin exactly at offset 0 and at every offset i >= 1 of B where
\* a header constant begins: every message after the first starts with a
\* header constant, no message has a header constant beginning at an offset
\* >= 1 inside it, and the bytes before the first header are a message of
\* their own.
C27_BoundariesAreHeaders ==
    task.nones > 0 /\ data_buffer # <<>> =>
        /\ C27_Boundaries =
              {0} \cup {i \in 1..Len(data_buffer) : C27_HeaderAt(data_buffer, i)}
        /\ \A k \in 2..Len(task.items) : C27_HeaderAt(task.items[k], 0)
        /\ \A k \in 1..Len(task.items) :
              \A i \in 1..Len(task.items[k]) : ~C27_HeaderAt(task.items[k], i)
        /\ \A i \in 1..Len(data_buffer) :
              /\ C27_HeaderAt(data_buffer, i)
              /\ \A j \in 0..(i - 1) : ~C27_HeaderAt(data_buffer, j)
              => task.items[1] = SubSeq(data_buffer, 1, i)

\* bytes that almost make a heartbeat came before a request header inside
\* which no other header begins, and a response followed: three messages
C27_Witness ==
    /\ task.nones > 0
    /\ data_buffer = <<65, 84, 13>> \o REQUEST_HEADER \o <<144, 235>> \o RESPONSE_HEADER
    /\ C27_Boundaries = {0, 3, 9}
    /\ task.items[1] = <<65, 84, 13>>


\* a sub-message that comes after the start and has no recognized header is
\* continuation data
C28_Continuation(m) == ~Recognized(m)

\* msgs[lo] .. msgs[hi] that are continuation data, one after the other
RECURSIVE C28_Continued(_, _, _)
C28_Continued(msgs, lo, hi) ==
    IF lo > hi THEN <<>>
    ELSE (IF C28_Continuation(msgs[lo]) THEN msgs[lo] ELSE <<>>)
            \o C28_Continued(msgs, lo + 1, hi)

\* the continuation data among the sub-messages after the from-th, up to
\* the first one with a recognized header
C28_After(msgs, from) ==
    LET k == First({i \in (from + 1)..Len(msgs) : Recognized(msgs[i])})
    IN  C28_Continued(msgs, from + 1, IF k = 0 THEN Len(msgs) ELSE k - 1)

\* the bytes of one notification that are accepted: from the start on if
\* none was accepted before (k its place, 0 for none)
C28_Accepted(msgs, started, k) ==
    IF started THEN C28_After(msgs, 0)
    ELSE IF k = 0 THEN <<>>
    ELSE msgs[k] \o C28_After(msgs, k)

\* C28: from the write of the request on, the scratch buffer is the
\* concatenation, in arrival order, of the accepted start and the accepted
\* continuation sub-messages of this exchange: the write leaves it empty,
\* a notification of the subscribed characteristic appends its accepted
\* sub-messages and nothing else (no ignored sub-message, no terminating
\* header message), and no other step of the exchange changes it.
C28_BufferIsAccepted ==
    [][\A t \in Tasks :
         /\ task[t].pc = "write" /\ task'[t].pc = "receive_messages" =>
               data_buffer' = <<>>
         /\ NotificationStep(t) =>
               data_buffer' = data_buffer \o
                   C28_Accepted(MessageIter(task'[t].value),
                                task[t].msg_count > 0,
                                StartOf(MessageIter(task'[t].value),
                                        task[t].record_type[1]))
         /\ /\ task[t].pc \in {"receive_messages", "unsubscribe"}
            /\ task'[t] # task[t]
            /\ ~NotificationStep(t)
            => data_buffer' = data_buffer]_vars


\* the step is the arrival, at caller t, of a notification of another
\* characteristic
C29_OtherStep(t) ==
    /\ task[t].pc = "receive_messages"
    /\ task'[t] # task[t]
    /\ task'[t].ev = "other"

\* C29: a notification of another characteristic changes nothing of the
\* assembly, whatever its payload: the buffer and the count of accepted
\* messages stay as they are, and the call goes on waiting for the next
\* notification with the same expectations.
C29_OtherCharacteristicIgnored ==
    [][\A t \in Tasks :
         C29_OtherStep(t) =>
            /\ data_buffer' = data_buffer
            /\ task'[t].msg_count = task[t].msg_count
            /\ task'[t].pc = "receive_messages"
            /\ task'[t].xres = task[t].xres
            /\ task'[t].record_type = task[t].record_type]_vars

\* a complete device-info response followed by a heartbeat arrived for
\* another characteristic while device_info() waited for its start
C29_Witness ==
    /\ task[1].op = "device_info"
    /\ task[1].pc = "receive_messages"
    /\ task[1].ev = "other"
    /\ task[1].value = InfoResponse \o HEARTBEAT
    /\ task[1].msg_count = 0
    /\ data_buffer = <<>>

\* a heartbeat arrived for another characteristic after the start of the
\* response, and the response is still open
C29_WitnessStarted ==
    /\ task[1].pc = "receive_messages"
    /\ task[1].ev = "other"
    /\ task[1].value = HEARTBEAT
    /\ task[1].msg_count > 0
    /\ data_buffer # <<>>


\* device_info() / cell_data() of caller t found the cache empty when
\* get_periphery read it
C30_Unbound(t) ==
    /\ task[t].op \in Requests
    /\ task[t].pc \notin {"make_request", "get_periphery"}
    /\ task[t].pid = <<>>

\* C30: a device_info() / cell_data() that finds the client without a
\* cached handle does nothing with the adapter or the device (no listing of
\* peripherals, no scan, no connect, no service discovery, no subscribe,
\* no write) and its one remaining step returns LostConnection with the
\* cache empty; and the cache goes from empty to an id only in a step of
\* open().
C30_UnboundLostConnection ==
    /\ [](\A t \in Tasks :
            C30_Unbound(t) =>
               /\ task[t].pc \in {"gp_invalidate", "done"}
               /\ (task[t].pc = "done" => task[t].res = "LostConnection")
               /\ task[t].periphery = <<>>
               /\ task[t].via = "none"
               /\ task[t].written = <<>>
               /\ task[t].nlist = 0 /\ task[t].nstart = 0
               /\ task[t].nconnect = 0
               /\ task[t].nsub = 0 /\ task[t].nwrite = 0)
    /\ [][/\ \A t \in Tasks :
                (C30_Unbound(t) /\ StepOf(t)) =>
                   (task'[t].pc = "done" /\ periphery_id' = <<>>)
          /\ (periphery_id = <<>> /\ periphery_id' # <<>>) =>
                 (\E t \in Tasks : StepOf(t) /\ task[t].op = "open")]_vars

\* cell_data() was called on a client that open() never bound and returned
\* LostConnection; the client is still without a handle
C30_Witness ==
    /\ task[1].op = "cell_data"
    /\ task[1].pc = "done"
    /\ task[1].pid = <<>>
    /\ task[1].stale = <<>>
    /\ task[1].cleared
    /\ task[1].res = "LostConnection"
    /\ periphery_id = <<>>

\* open() bound the client that had no handle
C30_WitnessOpen ==
    /\ task[1].op = "open"
    /\ task[1].pid = <<>>
    /\ task[1].via \in {"known", "scan"}
    /\ periphery_id # <<>>


\* the fixed layout of the record the operation decodes
C31_LayoutSize(op) ==
    IF op = "device_info" THEN SizeOfRawDeviceInfo ELSE SizeOfRawCellData

\* device_info() / cell_data() of caller t returns after an exchange that
\* passed the header and checksum checks and an unsubscribe that succeeded,
\* with fewer data bytes in the buffer than its layout has
C31_ShortReturn(t) ==
    /\ task[t].op \in Requests
    /\ task[t].pc = "unsubscribe"
    /\ task[t].xres = "Ok"
    /\ task'[t].pc = "done"
    /\ task'[t].unsub = "Ok"
    /\ Len(data(data_buffer)) < C31_LayoutSize(task[t].op)

C31_WitnessDeviceInfo ==
    /\ task[1].op = "device_info"
    /\ task[1].pc = "done"
    /\ task[1].res = "NotEnoughData"
    /\ Len(data_buffer) > SizeOfRawRecord + 2


\* open() of caller t is past the listing of the known peripherals and on
\* its way through the scan
C32_Scanning(t) ==
    \/ task[t].pc \in {"start_scan", "scan", "stop_scan"}
    \/ task[t].nstart > 0
    \/ task[t].via = "scan"

\* C32: open() resolves the peripheral in a fixed order.  It gets to the
\* scan only when the cache was empty or the cached id did not resolve, and
\* the peripherals the adapter listed, once, held none that matches the
\* device identity; when a listed peripheral matches, that one is taken, its
\* id is stored in the cache by the same step and no scan is started; a
\* handle taken from the cache went with no listing and no scan.  In the
\* scan a discovered peripheral is taken only if it advertises the vendor
\* service and matches the identity, and a discovery that fails one of the
\* two tests leaves the scan running.
C32_ResolutionOrder ==
    /\ [](\A t \in Tasks :
            task[t].op = "open" =>
               /\ C32_Scanning(t) =>
                    /\ task[t].pid = <<>> \/ task[t].stale # <<>>
                    /\ task[t].nlist = 1
                    /\ task[t].listed # <<>>
                    /\ \A q \in task[t].listed[1] : ~MatchesIdentity(q)
               /\ task[t].via = "known" =>
                    /\ task[t].pid = <<>> \/ task[t].stale # <<>>
                    /\ task[t].periphery[1] \in task[t].listed[1]
                    /\ MatchesIdentity(task[t].periphery[1])
                    /\ task[t].nstart = 0
               /\ task[t].via = "cache" =>
                    /\ task[t].periphery = task[t].pid
                    /\ task[t].nlist = 0 /\ task[t].nstart = 0
               /\ task[t].via = "scan" =>
                    /\ AdvertisesService(task[t].periphery[1])
                    /\ MatchesIdentity(task[t].periphery[1]))
    /\ [][\A t \in Tasks :
            /\ (task[t].op = "open" /\ task[t].via # "known"
                   /\ task'[t].via = "known") =>
                  periphery_id' = task'[t].periphery
            /\ (task[t].pc = "scan" /\ task'[t].ev = "discovered"
                   /\ task'[t] # task[t]
                   /\ task'[t].scan_result \in {"None", "Ok"}
                   /\ ~(/\ AdvertisesService(task'[t].value[1])
                        /\ MatchesIdentity(task'[t].value[1]))) =>
                  (task'[t].pc = "scan" /\ task'[t].via # "scan")]_vars

\* the cached id did not resolve, the adapter listed only the peripheral of
\* another device, and the scan passed over a peripheral that matches the
\* identity without advertising the service before it found the device
C32_Witness ==
    /\ task[1].op = "open"
    /\ task[1].stale # <<>>
    /\ task[1].listed = <<{3}>>
    /\ task[1].via = "scan"
    /\ task[1].nstart = 1
    /\ task[1].periphery = <<1>>

\* a discovery that does not match left the scan running
C32_WitnessPassedOver ==
    /\ task[1].op = "open"
    /\ task[1].pc = "scan"
    /\ task[1].ev = "discovered"
    /\ task[1].value = <<2>>

\* a listed peripheral matched: taken and cached with no scan
C32_WitnessKnown ==
    /\ task[1].op = "open"
    /\ task[1].via = "known"
    /\ task[1].listed = <<{2, 3}>>
    /\ task[1].periphery = <<2>>
    /\ periphery_id = <<2>>
    /\ task[1].pc = "done"
    /\ task[1].res = "Ok"


\* C33: data() and crc() are never evaluated on an empty buffer: whenever
\* receive_messages has returned, the stream having ended before any start
\* included, the validation of process_request finds bytes in the buffer or
\* the request returns LostConnection; no call ends in the panic of the
\* index at length - 1.
C33_NoIndexPanic ==
    \A t \in Tasks :
       /\ task[t].res # "Panic"
       /\ (task[t].pc = "unsubscribe" /\ task[t].ev \in {"notification", "end"}) =>
             (data_buffer # <<>> \/ task[t].xres = "LostConnection")


\* the call of caller t waits for notifications with a whole response in the
\* buffer: header, record type and checksum good, long enough for its record
C34_Complete(t) ==
    /\ task[t].op \in Requests
    /\ task[t].msg_count > 0
    /\ ValidateResponse(data_buffer) = "Ok"
    /\ data_as(task[t].op, data_buffer) = "Ok"

\* caller t's step ends the assembly of a started response
C34_Ends(t) ==
    /\ task[t].pc = "receive_messages"
    /\ task[t].msg_count > 0
    /\ task'[t].pc # "receive_messages"

\* one of the sub-messages begins with a header constant
C34_HasHeader(msgs) == \E i \in 1..Len(msgs) : Recognized(msgs[i])

\* the ways a started response ends: a notification with a sub-message that
\* begins with a header constant, the end of the stream, the expiry of
\* request_timeout; the expiry gives the exchange the result Timeout
C34_EndedByHeaderOrEnd(t) ==
    C34_Ends(t) =>
       \/ task'[t].ev = "end"
       \/ /\ task'[t].ev = "timeout"
          /\ task'[t].pc = "unsubscribe"
          /\ task'[t].xres = "Timeout"
       \/ /\ task'[t].ev = "notification"
          /\ C34_HasHeader(MessageIter(task'[t].value))

\* C34 as written: with every byte of a valid response delivered and
\* nothing after it, the call ends with Timeout when request_timeout
\* expires.
C34_CompleteEndsWithTimeout ==
    [][\A t \in Tasks :
         /\ C34_EndedByHeaderOrEnd(t)
         /\ (TimedOut(t) /\ task'[t] # task[t] /\ C34_Complete(t)) =>
               (task'[t].pc = "done" /\ task'[t].res = "Timeout")]_vars

\* C34, amended: a started response is ended only by a later sub-message
\* that begins with a header constant or by the end of the stream; with
\* every byte of a valid response delivered and nothing after it, the call
\* stays in the assembly until request_timeout expires and then returns
\* Timeout if the unsubscribe succeeds and the unsubscribe error if it
\* fails, never the record.
C34_CompleteNeverReturned ==
    [][\A t \in Tasks :
         /\ C34_EndedByHeaderOrEnd(t)
         /\ (TimedOut(t) /\ task'[t] # task[t] /\ C34_Complete(t)) =>
               /\ task'[t].pc = "done"
               /\ data_buffer' = data_buffer
               /\ task'[t].res =
                     IF task'[t].unsub = "Ok" THEN "Timeout" ELSE "Bt"]_vars

\* device_info() received a whole response in two notifications, nothing
\* after it, and returned Timeout
C34_Witness ==
    /\ task[1].op = "device_info"
    /\ task[1].pc = "done"
    /\ task[1].timed_out
    /\ task[1].res = "Timeout"
    /\ data_buffer = InfoResponse


\* the offsets >= 1 of payload v at which one of the three header constants
\* stands
C35_Offsets(v) ==
    { i \in 1..(Len(v) - 4) :
        <<v[i + 1], v[i + 2], v[i + 3], v[i + 4]>> \in
           { <<65, 84, 13, 10>>, <<170, 85, 144, 235>>, <<85, 170, 235, 144>> } }

\* the first of them
C35_First(v) == CHOOSE i \in C35_Offsets(v) : \A j \in C35_Offsets(v) : i <= j

\* the assembly ends with the buffer as it was or extended by the i bytes
\* of v before the header
C35_EndsAt(t, v, i) ==
    /\ task'[t].pc # "receive_messages"
    /\ data_buffer' \in {data_buffer, data_buffer \o SubSeq(v, 1, i)}

\* C35: a notification received after the start whose payload holds one of
\* the three header constants at an offset >= 1 ends the assembly at that
\* offset: of its bytes at most those before the first such offset are
\* appended, and once the assembly has ended the buffer stays as it is
\* until the call returns, whatever arrives.
C35_HeaderInPayloadEnds ==
    [][\A t \in Tasks :
         /\ (NotificationStep(t) /\ task[t].msg_count > 0
                /\ C35_Offsets(task'[t].value) # {}) =>
               C35_EndsAt(t, task'[t].value, C35_First(task'[t].value))
         /\ (task[t].pc = "unsubscribe" /\ task[t].ev = "notification") =>
               data_buffer' = data_buffer]_vars

\* after the start, a payload of five data bytes followed by a response
\* header: the five bytes were appended, the header and what follows it
\* were not, and the assembly is over
C35_Witness ==
    /\ task[1].op = "device_info"
    /\ task[1].pc = "unsubscribe"
    /\ task[1].ev = "notification"
    /\ task[1].value = Fragment \o MinimalStart
    /\ data_buffer = MinimalStart \o Fragment

\* the same with a heartbeat at offset 2
C35_WitnessShort ==
    /\ task[1].pc = "unsubscribe"
    /\ task[1].ev = "notification"
    /\ task[1].value = <<7, 7>> \o HEARTBEAT
    /\ task[1].msg_count > 0


\* C36: Client::find returns Ok only when scan_timeout expired.  When the
\* adapter's event stream ends first, find returns NotFound and none of the
\* devices collected so far; when events(), the resolution of a discovered
\* peripheral or the reading of its properties fails, find goes to its
\* stop_scan at once and returns that error, again without the devices.
C36_FindOkOnlyOnTimeout ==
    [][\A t \in Tasks :
         (task[t].op = "find" /\ StepOf(t)) =>
            /\ (task'[t].pc = "done" /\ task'[t].res = "Ok") =>
                  task'[t].timed_out
            /\ (task[t].pc = "fa_next" /\ task'[t].ev = "end") =>
                  (task'[t].pc = "fa_stop" /\ task'[t].scan_result = "NotFound")
            /\ (task[t].pc = "fa_stop" /\ ~task[t].timed_out) =>
                  /\ task'[t].pc = "done"
                  /\ task'[t].res = task[t].scan_result
                  /\ task'[t].res \in {"NotFound", "Bt"}
                  /\ task'[t].devices = <<>>
            /\ (task[t].pc \in {"fa_events", "fa_peripheral", "fa_check"}
                   /\ task'[t].scan_result = "Bt") =>
                  (task'[t].pc = "fa_stop" /\ task'[t].found = task[t].found)]_vars

\* the event stream ended after a device had been collected: find returned
\* NotFound and no list
C36_Witness ==
    /\ task[1].op = "find"
    /\ task[1].pc = "done"
    /\ ~task[1].timed_out
    /\ task[1].found # <<>>
    /\ task[1].scan_result = "NotFound"
    /\ task[1].res = "NotFound"
    /\ task[1].devices = <<>>

\* the resolution of the second discovered peripheral failed: find returned
\* the error and no list
C36_WitnessError ==
    /\ task[1].op = "find"
    /\ task[1].pc = "done"
    /\ task[1].found # <<>>
    /\ task[1].res = "Bt"
    /\ task[1].periphery # task[1].pid
    /\ task[1].devices = <<>>


\* C37: in open() and Client::find a start_scan that succeeded is followed
\* by one stop_scan attempt, and only one, before the operation returns,
\* whatever ended the scan; no stop_scan is attempted without it; and what
\* the stop_scan answers changes nothing: the operation goes on or returns
\* as the result of the scan says.
C37_ScanStoppedOnce ==
    /\ [](\A t \in Tasks :
            task[t].op \in {"open", "find"} =>
               /\ task[t].nstop <= task[t].nstart
               /\ task[t].nstart <= 1
               /\ (task[t].pc \in {"done", "is_connected", "connect"}) =>
                     (task[t].nstop = task[t].nstart)
               /\ (task[t].stop = "None") <=> (task[t].nstop = 0))
    /\ [][\A t \in Tasks :
            /\ (task[t].pc = "stop_scan" /\ task'[t] # task[t]) =>
                  IF task[t].scan_result = "Ok"
                  THEN /\ task'[t].pc = "is_connected"
                       /\ periphery_id' = task[t].periphery
                  ELSE /\ task'[t].pc = "done"
                       /\ task'[t].res = task[t].scan_result
            /\ (task[t].pc = "fa_stop" /\ task'[t] # task[t]) =>
                  /\ task'[t].pc = "done"
                  /\ task'[t].res = task[t].scan_result
                  /\ (task'[t].res = "Ok") =>
                        (task'[t].devices = <<task[t].found>>)]_vars

\* open() found the device by the scan, the stop_scan failed, and open()
\* went on to connect and returned Ok
C37_Witness ==
    /\ task[1].op = "open"
    /\ task[1].pc = "done"
    /\ task[1].via = "scan"
    /\ task[1].nstart = 1
    /\ task[1].nstop = 1
    /\ task[1].stop = "Bt"
    /\ task[1].nconnect = 1
    /\ task[1].res = "Ok"

\* find timed out with a device collected, the stop_scan failed, and find
\* returned the list
C37_WitnessFind ==
    /\ task[1].op = "find"
    /\ task[1].pc = "done"
    /\ task[1].nstart = 1
    /\ task[1].nstop = 1
    /\ task[1].stop = "Bt"
    /\ task[1].res = "Ok"
    /\ task[1].devices # << <<>> >>

\* the scan of open() failed with an error and was stopped once
C37_WitnessError ==
    /\ task[1].op = "open"
    /\ task[1].pc = "done"
    /\ task[1].scan_result = "Bt"
    /\ task[1].nstop = 1
    /\ task[1].res = "Bt"


\* C38: the write of get_periphery's failure path does not look at the
\* cache: once the lookup of the id a task read has failed, or the task read
\* an empty cache, its next step empties the cache and returns
\* LostConnection whatever another task has stored in the meantime.  The
\* cache changes in no other way than that and the store of open(), which
\* writes the id of the peripheral it has just found: it holds nothing or
\* one whole id.
C38_LastWriterWins ==
    /\ [](periphery_id = <<>>
            \/ (Len(periphery_id) = 1 /\ periphery_id[1] \in PeriphIds))
    /\ [][/\ \A t \in Tasks :
               (task[t].pc = "gp_invalidate" /\ StepOf(t)) =>
                  /\ periphery_id' = <<>>
                  /\ task'[t].pc = "done"
                  /\ task'[t].res = "LostConnection"
          /\ (periphery_id' # periphery_id) =>
                \E t \in Tasks :
                   /\ StepOf(t)
                   /\ \/ /\ task[t].pc = "gp_invalidate"
                         /\ periphery_id' = <<>>
                      \/ /\ task[t].op = "open"
                         /\ task[t].pc \in {"fp_peripherals", "stop_scan"}
                         /\ periphery_id' # <<>>
                         /\ periphery_id' = task'[t].periphery]_vars

\* caller 1 read id 2 from the cache and its lookup failed; caller 2's open()
\* then found peripheral 1, stored its id and returned Ok; caller 1's write
\* came last: the client is without a handle right after that open()
C38_Witness ==
    /\ task[1].op = "address"
    /\ task[1].pc = "done"
    /\ task[1].stale = <<2>>
    /\ task[1].cleared
    /\ task[1].res = "LostConnection"
    /\ task[2].op = "open"
    /\ task[2].pc = "done"
    /\ task[2].res = "Ok"
    /\ task[2].periphery = <<1>>
    /\ task[2].via \in {"known", "scan"}
    /\ periphery_id = <<>>

\* the state before that write: the cache holds the id open() stored, not
\* the one whose lookup failed
C38_WitnessBefore ==
    /\ task[1].pc = "gp_invalidate"
    /\ task[1].stale = <<2>>
    /\ task[2].op = "open"
    /\ task[2].pc = "done"
    /\ task[2].res = "Ok"
    /\ task[2].via \in {"known", "scan"}
    /\ periphery_id = <<1>>


\* a device_info() or cell_data() call of caller t returns in this step
C39_RequestReturns(t) ==
    /\ task[t].op \in {"device_info", "cell_data"}
    /\ task[t].pc # "done"
    /\ task'[t].pc = "done"

\* C39: device_info() / cell_data() return a record only if subscribe, the
\* exchange and unsubscribe all succeeded; when unsubscribe fails the call
\* returns the unsubscribe error, whatever the exchange had produced (a
\* complete response with a valid checksum, or an earlier error).
C39_RecordOnlyIfAllSucceeded ==
    [][\A t \in Tasks :
         C39_RequestReturns(t) =>
            /\ task'[t].res = "Ok" =>
                 /\ task[t].pc = "unsubscribe"
                 /\ task'[t].nsub = 1
                 /\ task[t].xres = "Ok"
                 /\ task'[t].unsub = "Ok"
            /\ (task[t].pc = "unsubscribe" /\ task'[t].unsub = "Bt") =>
                 task'[t].res = "Bt"
            /\ task'[t].unsub = "Bt" => task[t].pc = "unsubscribe"]_vars

\* device_info() returned the unsubscribe error although the buffer holds a
\* complete response with a valid checksum that converts to a record
C39_Witness ==
    /\ task[1].op = "device_info"
    /\ task[1].pc = "done"
    /\ task[1].res = "Bt"
    /\ task[1].unsub = "Bt"
    /\ task[1].nsub = 1
    /\ task[1].nwrite = 1
    /\ ~task[1].timed_out
    /\ ValidateResponse(data_buffer) = "Ok"
    /\ data_as("device_info", data_buffer) = "Ok"

\* the unsubscribe error replaced the BadCrc of the exchange
C39_WitnessReplaced ==
    /\ task[1].op = "cell_data"
    /\ task[1].pc = "done"
    /\ task[1].res = "Bt"
    /\ task[1].unsub = "Bt"
    /\ task[1].nwrite = 1
    /\ ~task[1].timed_out
    /\ Len(data_buffer) > 6
    /\ ValidateResponse(data_buffer) = "BadCrc"

=============================================================================
